---- MODULE Spec2Model ----
(***************************************************************************)
(* Pose comparison and feedback generation of AnalysisService              *)
(* (services/AnalysisService.ts): joint angles from landmarks, per-frame   *)
(* deviations and severities, the frame-sequence comparison, and the       *)
(* feedback report built from it.                                          *)
(*                                                                         *)
(* Numbers.  A JavaScript number that holds degrees is modelled as an      *)
(* exact fraction [num, den] in lowest terms (den > 0), so sums, means,    *)
(* threshold comparisons and Math.round are computed without rounding      *)
(* error.  Only calculateAngle, which needs a square root and an arc       *)
(* cosine, is computed in fixed point (MagScale, CosScale, CosTable) and   *)
(* then handed on as a fraction of thousandths of a degree.                *)
(***************************************************************************)
EXTENDS Integers, Sequences, FiniteSets, TLC

VARIABLES
    pc,                     \* position of the caller in the pipeline
    userLandmarks,          \* PoseLandmarkData[] of the user's throw
    goldStandardLandmarks,  \* PoseLandmarkData[] of the gold standard
    comparison,             \* ComparisonResult returned by comparePoses
    report,                 \* AnalysisReport returned by generateFeedback
    userAngles,             \* JointAngles handed to calculateDeviations
    goldAngles,             \* JointAngles handed to calculateDeviations
    frameDeviations,        \* DeviationScores returned by calculateDeviations
    callArgs,               \* arguments of a helper called on its own
    callResult,             \* what that call returned
    detector,               \* PoseDetectionService.detector
    isInitialized,          \* PoseDetectionService.isInitialized
    running,                \* async calls that are waiting at an await
    log,                    \* calls made and what they returned, UI effects
    screen,                 \* React state of ProcessingScreen
    storage                 \* the MMKV store: key -> stored text

vars == <<pc, userLandmarks, goldStandardLandmarks, comparison, report,
          userAngles, goldAngles, frameDeviations, callArgs, callResult,
          detector, isInitialized, running, log, screen, storage>>

\* The state of the collaborators of AnalysisService.
collaboratorVars == <<detector, isInitialized, running, log, screen, storage>>

\* Value of a variable that no call has assigned yet.
None == "none"

\* The collaborators take no part in the run.
NoCollaborators ==
    /\ detector = None
    /\ isInitialized = FALSE
    /\ running = <<>>
    /\ log = <<>>
    /\ screen = None
    /\ storage = None

-----------------------------------------------------------------------------
(* Exact arithmetic on JavaScript numbers                                  *)

RECURSIVE GCD(_, _)
GCD(a, b) == IF b = 0 THEN a ELSE GCD(b, a % b)

Abs(n) == IF n < 0 THEN -n ELSE n

\* The fraction n/d (d > 0) in lowest terms.
Rat(n, d) ==
    LET g == GCD(Abs(n), d)
    IN  IF n = 0 THEN [num |-> 0, den |-> 1]
        ELSE [num |-> n \div g, den |-> d \div g]

Num(n) == [num |-> n, den |-> 1]

LCM(a, b) == (a \div GCD(a, b)) * b

\* a + b
RAdd(a, b) ==
    LET l == LCM(a.den, b.den)
    IN  Rat(a.num * (l \div a.den) + b.num * (l \div b.den), l)

\* a - b
RSub(a, b) == RAdd(a, [num |-> -b.num, den |-> b.den])

\* Math.abs(a)
RAbs(a) == [num |-> Abs(a.num), den |-> a.den]

\* a / k for an integer k > 0
RDivInt(a, k) ==
    LET g == GCD(Abs(a.num), k)
    IN  IF a.num = 0 THEN Num(0)
        ELSE [num |-> a.num \div g, den |-> a.den * (k \div g)]

\* a * k for an integer k >= 0
RMulInt(a, k) ==
    LET g == GCD(a.den, k)
    IN  IF k = 0 THEN Num(0)
        ELSE [num |-> a.num * (k \div g), den |-> a.den \div g]

\* a > b, a >= b
RGt(a, b) == a.num * b.den > b.num * a.den
RGe(a, b) == a.num * b.den >= b.num * a.den

\* Math.max(a, b), Math.min(a, b)
RMax(a, b) == IF RGe(a, b) THEN a ELSE b
RMin(a, b) == IF RGe(a, b) THEN b ELSE a

\* Math.round(a): the integer nearest to a, a half rounding up.
MathRound(a) == (2 * a.num + a.den) \div (2 * a.den)

-----------------------------------------------------------------------------
(* Landmarks                                                               *)

\* The slots of the 33-point schema that calculateJointAngles reads.
PoseLandmarkIndex ==
    [LEFT_SHOULDER |-> 11, RIGHT_SHOULDER |-> 12,
     LEFT_ELBOW    |-> 13, RIGHT_ELBOW    |-> 14,
     LEFT_WRIST    |-> 15, RIGHT_WRIST    |-> 16,
     LEFT_INDEX    |-> 19, RIGHT_INDEX    |-> 20,
     LEFT_HIP      |-> 23, RIGHT_HIP      |-> 24,
     LEFT_KNEE     |-> 25, RIGHT_KNEE     |-> 26,
     LEFT_ANKLE    |-> 27, RIGHT_ANKLE    |-> 28]

\* Number of slots of a landmark array
NumLandmarks == 33

\* landmarks[i] of a JavaScript array (0-based) held as a TLA+ sequence.
At(landmarks, i) == landmarks[i + 1]

-----------------------------------------------------------------------------
(* calculateAngle in fixed point                                           *)

\* Lengths are held in units of 1/MagScale, cosines in units of 1/CosScale.
MagScale == 10^3
CosScale == 10^4

\* Integer division rounding toward zero (the sign is kept symmetric).
DivTrunc(a, b) == IF a >= 0 THEN a \div b ELSE -((-a) \div b)

RECURSIVE SqrtSearch(_, _, _)
SqrtSearch(lo, hi, target) ==
    IF lo >= hi THEN lo
    ELSE LET mid == (lo + hi + 1) \div 2
         IN  IF mid * mid <= target THEN SqrtSearch(mid, hi, target)
             ELSE SqrtSearch(lo, mid - 1, target)

\* Math.sqrt(n) in units of 1/MagScale, for an integer n >= 0.
MathSqrt(n) == SqrtSearch(0, 46340, n * MagScale * MagScale)

\* cos(d degrees) in units of 1/CosScale, for d = 0..90, at CosTable[d + 1].
CosTable ==
  << 10000, 9998, 9994, 9986, 9976, 9962, 9945, 9925, 9903, 9877, 9848, 9816, 9781,
     9744, 9703, 9659, 9613, 9563, 9511, 9455, 9397, 9336, 9272, 9205, 9135, 9063,
     8988, 8910, 8829, 8746, 8660, 8572, 8480, 8387, 8290, 8192, 8090, 7986, 7880,
     7771, 7660, 7547, 7431, 7314, 7193, 7071, 6947, 6820, 6691, 6561, 6428, 6293,
     6157, 6018, 5878, 5736, 5592, 5446, 5299, 5150, 5000, 4848, 4695, 4540, 4384,
     4226, 4067, 3907, 3746, 3584, 3420, 3256, 3090, 2924, 2756, 2588, 2419, 2250,
     2079, 1908, 1736, 1564, 1392, 1219, 1045, 872, 698, 523, 349, 175, 0 >>

\* Thousandths of a degree of acos(c / CosScale) for 0 <= c <= CosScale:
\* the table entry below c, interpolated linearly to the next one.
AcosMilliDegrees(c) ==
    LET d == CHOOSE k \in 0..90 :
                 /\ CosTable[k + 1] >= c
                 /\ (k = 90 \/ CosTable[k + 2] < c)
    IN  IF d = 90 THEN 90 * 1000
        ELSE d * 1000 + ((CosTable[d + 1] - c) * 1000)
                            \div (CosTable[d + 1] - CosTable[d + 2])

\* (Math.acos(c) * 180) / Math.PI, in degrees, for -CosScale <= c <= CosScale.
AcosDegrees(c) ==
    IF c >= 0 THEN Rat(AcosMilliDegrees(c), 1000)
    ELSE Rat(180 * 1000 - AcosMilliDegrees(-c), 1000)

\* The number that is not a number: 0 / 0, and Math.acos outside [-1, 1].
NaN == [num |-> 0, den |-> 0]

\* A variant of calculateAngle without the early return for a zero-length
\* vector: the division is then 0 / 0.
calculateAngleUnguarded(point1, point2, point3) ==
    LET vector1 == [x |-> point1.x - point2.x,
                    y |-> point1.y - point2.y,
                    z |-> point1.z - point2.z]
        vector2 == [x |-> point3.x - point2.x,
                    y |-> point3.y - point2.y,
                    z |-> point3.z - point2.z]
        dotProduct == vector1.x * vector2.x
                      + vector1.y * vector2.y
                      + vector1.z * vector2.z
        magnitude1 == MathSqrt(vector1.x * vector1.x + vector1.y * vector1.y
                               + vector1.z * vector1.z)
        magnitude2 == MathSqrt(vector2.x * vector2.x + vector2.y * vector2.y
                               + vector2.z * vector2.z)
        cosAngle == DivTrunc(dotProduct * MagScale * CosScale,
                             (magnitude1 * magnitude2) \div MagScale)
        clampedCosAngle ==
            IF cosAngle < -CosScale THEN -CosScale
            ELSE IF cosAngle > CosScale THEN CosScale ELSE cosAngle
    IN  IF magnitude1 = 0 \/ magnitude2 = 0 THEN NaN
        ELSE AcosDegrees(clampedCosAngle)

\* A variant of calculateAngle that divides by magnitude1 twice.
calculateAngleMagnitude1Twice(point1, point2, point3) ==
    LET vector1 == [x |-> point1.x - point2.x,
                    y |-> point1.y - point2.y,
                    z |-> point1.z - point2.z]
        vector2 == [x |-> point3.x - point2.x,
                    y |-> point3.y - point2.y,
                    z |-> point3.z - point2.z]
        dotProduct == vector1.x * vector2.x
                      + vector1.y * vector2.y
                      + vector1.z * vector2.z
        magnitude1 == MathSqrt(vector1.x * vector1.x + vector1.y * vector1.y
                               + vector1.z * vector1.z)
        magnitude2 == MathSqrt(vector2.x * vector2.x + vector2.y * vector2.y
                               + vector2.z * vector2.z)
        cosAngle == DivTrunc(dotProduct * MagScale * CosScale,
                             (magnitude1 * magnitude1) \div MagScale)
        clampedCosAngle ==
            IF cosAngle < -CosScale THEN -CosScale
            ELSE IF cosAngle > CosScale THEN CosScale ELSE cosAngle
    IN  IF magnitude1 = 0 \/ magnitude2 = 0 THEN Num(0)
        ELSE AcosDegrees(clampedCosAngle)

\* A variant of calculateAngle that hands the cosine to Math.acos unclamped.
calculateAngleUnclamped(point1, point2, point3) ==
    LET vector1 == [x |-> point1.x - point2.x,
                    y |-> point1.y - point2.y,
                    z |-> point1.z - point2.z]
        vector2 == [x |-> point3.x - point2.x,
                    y |-> point3.y - point2.y,
                    z |-> point3.z - point2.z]
        dotProduct == vector1.x * vector2.x
                      + vector1.y * vector2.y
                      + vector1.z * vector2.z
        magnitude1 == MathSqrt(vector1.x * vector1.x + vector1.y * vector1.y
                               + vector1.z * vector1.z)
        magnitude2 == MathSqrt(vector2.x * vector2.x + vector2.y * vector2.y
                               + vector2.z * vector2.z)
        cosAngle == DivTrunc(dotProduct * MagScale * CosScale,
                             (magnitude1 * magnitude2) \div MagScale)
    IN  IF magnitude1 = 0 \/ magnitude2 = 0 THEN Num(0)
        ELSE IF cosAngle < -CosScale \/ cosAngle > CosScale THEN NaN
        ELSE AcosDegrees(cosAngle)

calculateAngle(point1, point2, point3) ==
    LET vector1 == [x |-> point1.x - point2.x,
                    y |-> point1.y - point2.y,
                    z |-> point1.z - point2.z]
        vector2 == [x |-> point3.x - point2.x,
                    y |-> point3.y - point2.y,
                    z |-> point3.z - point2.z]
        dotProduct == vector1.x * vector2.x
                      + vector1.y * vector2.y
                      + vector1.z * vector2.z
        magnitude1 == MathSqrt(vector1.x * vector1.x + vector1.y * vector1.y
                               + vector1.z * vector1.z)
        magnitude2 == MathSqrt(vector2.x * vector2.x + vector2.y * vector2.y
                               + vector2.z * vector2.z)
        \* dotProduct / (magnitude1 * magnitude2), in units of 1/CosScale
        cosAngle == DivTrunc(dotProduct * MagScale * CosScale,
                             (magnitude1 * magnitude2) \div MagScale)
        clampedCosAngle ==
            IF cosAngle < -CosScale THEN -CosScale
            ELSE IF cosAngle > CosScale THEN CosScale ELSE cosAngle
    IN  IF magnitude1 = 0 \/ magnitude2 = 0 THEN Num(0)
        ELSE AcosDegrees(clampedCosAngle)

\* A variant of calculateJointAngles whose left elbow angle ends at the right
\* wrist.
calculateJointAnglesCrossed(landmarks) ==
    LET I == PoseLandmarkIndex
    IN  [shoulder |->
            [left  |-> calculateAngle(At(landmarks, I.LEFT_HIP),
                                      At(landmarks, I.LEFT_SHOULDER),
                                      At(landmarks, I.LEFT_ELBOW)),
             right |-> calculateAngle(At(landmarks, I.RIGHT_HIP),
                                      At(landmarks, I.RIGHT_SHOULDER),
                                      At(landmarks, I.RIGHT_ELBOW))],
         elbow |->
            [left  |-> calculateAngle(At(landmarks, I.LEFT_SHOULDER),
                                      At(landmarks, I.LEFT_ELBOW),
                                      At(landmarks, I.RIGHT_WRIST)),
             right |-> calculateAngle(At(landmarks, I.RIGHT_SHOULDER),
                                      At(landmarks, I.RIGHT_ELBOW),
                                      At(landmarks, I.RIGHT_WRIST))],
         wrist |->
            [left  |-> calculateAngle(At(landmarks, I.LEFT_ELBOW),
                                      At(landmarks, I.LEFT_WRIST),
                                      At(landmarks, I.LEFT_INDEX)),
             right |-> calculateAngle(At(landmarks, I.RIGHT_ELBOW),
                                      At(landmarks, I.RIGHT_WRIST),
                                      At(landmarks, I.RIGHT_INDEX))],
         hip |->
            [left  |-> calculateAngle(At(landmarks, I.LEFT_SHOULDER),
                                      At(landmarks, I.LEFT_HIP),
                                      At(landmarks, I.LEFT_KNEE)),
             right |-> calculateAngle(At(landmarks, I.RIGHT_SHOULDER),
                                      At(landmarks, I.RIGHT_HIP),
                                      At(landmarks, I.RIGHT_KNEE))],
         knee |->
            [left  |-> calculateAngle(At(landmarks, I.LEFT_HIP),
                                      At(landmarks, I.LEFT_KNEE),
                                      At(landmarks, I.LEFT_ANKLE)),
             right |-> calculateAngle(At(landmarks, I.RIGHT_HIP),
                                      At(landmarks, I.RIGHT_KNEE),
                                      At(landmarks, I.RIGHT_ANKLE))]]

calculateJointAngles(landmarks) ==
    LET I == PoseLandmarkIndex
    IN  [shoulder |->
            [left  |-> calculateAngle(At(landmarks, I.LEFT_HIP),
                                      At(landmarks, I.LEFT_SHOULDER),
                                      At(landmarks, I.LEFT_ELBOW)),
             right |-> calculateAngle(At(landmarks, I.RIGHT_HIP),
                                      At(landmarks, I.RIGHT_SHOULDER),
                                      At(landmarks, I.RIGHT_ELBOW))],
         elbow |->
            [left  |-> calculateAngle(At(landmarks, I.LEFT_SHOULDER),
                                      At(landmarks, I.LEFT_ELBOW),
                                      At(landmarks, I.LEFT_WRIST)),
             right |-> calculateAngle(At(landmarks, I.RIGHT_SHOULDER),
                                      At(landmarks, I.RIGHT_ELBOW),
                                      At(landmarks, I.RIGHT_WRIST))],
         wrist |->
            [left  |-> calculateAngle(At(landmarks, I.LEFT_ELBOW),
                                      At(landmarks, I.LEFT_WRIST),
                                      At(landmarks, I.LEFT_INDEX)),
             right |-> calculateAngle(At(landmarks, I.RIGHT_ELBOW),
                                      At(landmarks, I.RIGHT_WRIST),
                                      At(landmarks, I.RIGHT_INDEX))],
         hip |->
            [left  |-> calculateAngle(At(landmarks, I.LEFT_SHOULDER),
                                      At(landmarks, I.LEFT_HIP),
                                      At(landmarks, I.LEFT_KNEE)),
             right |-> calculateAngle(At(landmarks, I.RIGHT_SHOULDER),
                                      At(landmarks, I.RIGHT_HIP),
                                      At(landmarks, I.RIGHT_KNEE))],
         knee |->
            [left  |-> calculateAngle(At(landmarks, I.LEFT_HIP),
                                      At(landmarks, I.LEFT_KNEE),
                                      At(landmarks, I.LEFT_ANKLE)),
             right |-> calculateAngle(At(landmarks, I.RIGHT_HIP),
                                      At(landmarks, I.RIGHT_KNEE),
                                      At(landmarks, I.RIGHT_ANKLE))]]

-----------------------------------------------------------------------------
(* DeviationScores: a JavaScript object, held as the sequence of its       *)
(* entries [key, deviation, severity] in insertion order.                  *)

HasKey(obj, key) == \E i \in 1..Len(obj) : obj[i].key = key

\* obj[key]
Get(obj, key) == obj[CHOOSE i \in 1..Len(obj) : obj[i].key = key]

\* obj[key] = value: an existing key keeps its place, a new one goes last.
Put(obj, key, value) ==
    LET entry == [key |-> key, deviation |-> value.deviation,
                  severity |-> value.severity]
    IN  IF HasKey(obj, key)
        THEN [i \in 1..Len(obj) |-> IF obj[i].key = key THEN entry ELSE obj[i]]
        ELSE Append(obj, entry)

\* Object.keys(obj)
ObjectKeys(obj) == [i \in 1..Len(obj) |-> obj[i].key]

-----------------------------------------------------------------------------
(* calculateDeviations                                                     *)

joints == <<"shoulder", "elbow", "wrist", "hip", "knee">>
sides == <<"left", "right">>

\* A variant of segmentKeyOf that names the knee angle after the landmark its
\* triple ends at.
segmentKeyOfDistal(side, joint) ==
    side \o "_" \o (IF joint = "knee" THEN "ankle" ELSE joint)

\* `${side}_${joint}`
segmentKeyOf(side, joint) == side \o "_" \o joint

\* A variant of frameSeverity that also takes exactly 15 degrees as high.
frameSeverityFrom15(deviation) ==
    IF RGe(deviation, Num(15)) THEN "high"
    ELSE IF RGe(deviation, Num(10)) THEN "medium"
    ELSE "low"

\* A variant of frameSeverity that takes exactly 10 degrees as low.
frameSeverityAbove10(deviation) ==
    IF RGt(deviation, Num(15)) THEN "high"
    ELSE IF RGt(deviation, Num(10)) THEN "medium"
    ELSE "low"

\* The severity of one frame's deviation, in degrees.
frameSeverity(deviation) ==
    IF RGt(deviation, Num(15)) THEN "high"
    ELSE IF RGe(deviation, Num(10)) THEN "medium"
    ELSE "low"

\* A variant of DeviationStep that keeps the sign of the difference.
DeviationStepSigned(deviations, user, gold, joint, side) ==
    LET deviation == RSub(user[joint][side], gold[joint][side])
    IN  Put(deviations, segmentKeyOf(side, joint),
            [deviation |-> deviation, severity |-> frameSeverity(deviation)])

\* The body of the inner loop for one (joint, side).
DeviationStep(deviations, user, gold, joint, side) ==
    LET userAngle == user[joint][side]
        goldAngle == gold[joint][side]
        deviation == RAbs(RSub(userAngle, goldAngle))
        severity == frameSeverity(deviation)
    IN  Put(deviations, segmentKeyOf(side, joint),
            [deviation |-> deviation, severity |-> severity])

\* The two nested loops, entered at joint number j and side number s.
RECURSIVE DeviationLoop(_, _, _, _, _)
DeviationLoop(deviations, user, gold, j, s) ==
    IF j > Len(joints) THEN deviations
    ELSE IF s > Len(sides) THEN DeviationLoop(deviations, user, gold, j + 1, 1)
    ELSE DeviationLoop(DeviationStep(deviations, user, gold, joints[j], sides[s]),
                       user, gold, j, s + 1)

calculateDeviations(user, gold) == DeviationLoop(<<>>, user, gold, 1, 1)

-----------------------------------------------------------------------------
(* comparePoses and its helpers                                            *)

\* A variant of hasSignificantDeviation that also counts 'medium'.
hasSignificantDeviationNotLow(deviations) ==
    \E k \in 1..Len(deviations) : deviations[k].severity # "low"

\* A variant of hasSignificantDeviation that asks every segment to be 'high'.
hasSignificantDeviationEvery(deviations) ==
    \A k \in 1..Len(deviations) : deviations[k].severity = "high"

\* Object.values(frameDeviations).some((dev) => dev.severity === 'high')
hasSignificantDeviation(deviations) ==
    \E k \in 1..Len(deviations) : deviations[k].severity = "high"

\* deviationValues.reduce((sum, val) => sum + val, 0), from element k on.
RECURSIVE SumFrom(_, _, _)
SumFrom(values, k, sum) ==
    IF k > Len(values) THEN sum
    ELSE SumFrom(values, k + 1, RAdd(sum, values[k]))

\* The severity of a deviation averaged over the frames, in degrees.
averageSeverity(averageDeviation) ==
    IF RGt(averageDeviation, Num(15)) THEN "high"
    ELSE IF RGe(averageDeviation, Num(10)) THEN "medium"
    ELSE "low"

\* A variant of AverageStep that takes the worst severity seen in a frame.
AverageStepWorstSeverity(averageDeviations, allDeviations, key) ==
    LET deviationValues ==
            [f \in 1..Len(allDeviations) |-> Get(allDeviations[f], key).deviation]
        averageDeviation ==
            RDivInt(SumFrom(deviationValues, 1, Num(0)), Len(deviationValues))
        Seen(sev) == \E f \in 1..Len(allDeviations) :
                         Get(allDeviations[f], key).severity = sev
        severity == IF Seen("high") THEN "high"
                    ELSE IF Seen("medium") THEN "medium" ELSE "low"
    IN  Put(averageDeviations, key,
            [deviation |-> averageDeviation, severity |-> severity])

\* The body of the loop over segmentKeys for one key.
AverageStep(averageDeviations, allDeviations, key) ==
    LET deviationValues ==
            [f \in 1..Len(allDeviations) |-> Get(allDeviations[f], key).deviation]
        averageDeviation ==
            RDivInt(SumFrom(deviationValues, 1, Num(0)), Len(deviationValues))
        severity == averageSeverity(averageDeviation)
    IN  Put(averageDeviations, key,
            [deviation |-> averageDeviation, severity |-> severity])

RECURSIVE AverageLoop(_, _, _, _)
AverageLoop(averageDeviations, allDeviations, segmentKeys, k) ==
    IF k > Len(segmentKeys) THEN averageDeviations
    ELSE AverageLoop(AverageStep(averageDeviations, allDeviations, segmentKeys[k]),
                     allDeviations, segmentKeys, k + 1)

calculateAverageDeviations(allDeviations) ==
    IF Len(allDeviations) = 0 THEN <<>>
    ELSE AverageLoop(<<>>, allDeviations, ObjectKeys(allDeviations[1]), 1)

\* A variant of calculateOverallScore that returns the percentage lost
\* instead of the percentage kept.
calculateOverallScoreInverted(deviations) ==
    LET deviationValues == [k \in 1..Len(deviations) |-> deviations[k].deviation]
        totalDeviation == SumFrom(deviationValues, 1, Num(0))
        averageDeviation == RDivInt(totalDeviation, Len(deviationValues))
        score == RMax(Num(0),
                      RMin(Num(100),
                           RMulInt(RDivInt(averageDeviation, 30), 100)))
    IN  IF Len(deviationValues) = 0 THEN 100
        ELSE MathRound(score)

\* A variant of calculateOverallScore that takes the absolute value of the
\* score instead of raising it to 0.
calculateOverallScoreAbs(deviations) ==
    LET deviationValues == [k \in 1..Len(deviations) |-> deviations[k].deviation]
        totalDeviation == SumFrom(deviationValues, 1, Num(0))
        averageDeviation == RDivInt(totalDeviation, Len(deviationValues))
        score == RAbs(RMin(Num(100),
                           RSub(Num(100),
                                RMulInt(RDivInt(averageDeviation, 30), 100))))
    IN  IF Len(deviationValues) = 0 THEN 100
        ELSE MathRound(score)

\* A variant of calculateOverallScore without the clamp to 0..100.
calculateOverallScoreUnclamped(deviations) ==
    LET deviationValues == [k \in 1..Len(deviations) |-> deviations[k].deviation]
        totalDeviation == SumFrom(deviationValues, 1, Num(0))
        averageDeviation == RDivInt(totalDeviation, Len(deviationValues))
        score == RSub(Num(100), RMulInt(RDivInt(averageDeviation, 30), 100))
    IN  IF Len(deviationValues) = 0 THEN 100
        ELSE MathRound(score)

\* A variant of calculateOverallScore that scores an empty mapping as 0.
calculateOverallScoreEmptyZero(deviations) ==
    LET deviationValues == [k \in 1..Len(deviations) |-> deviations[k].deviation]
        totalDeviation == SumFrom(deviationValues, 1, Num(0))
        averageDeviation == RDivInt(totalDeviation, Len(deviationValues))
        score == RMax(Num(0),
                      RMin(Num(100),
                           RSub(Num(100),
                                RMulInt(RDivInt(averageDeviation, 30), 100))))
    IN  IF Len(deviationValues) = 0 THEN 0
        ELSE MathRound(score)

calculateOverallScore(deviations) ==
    LET deviationValues == [k \in 1..Len(deviations) |-> deviations[k].deviation]
        totalDeviation == SumFrom(deviationValues, 1, Num(0))
        averageDeviation == RDivInt(totalDeviation, Len(deviationValues))
        score == RMax(Num(0),
                      RMin(Num(100),
                           RSub(Num(100),
                                RMulInt(RDivInt(averageDeviation, 30), 100))))
    IN  IF Len(deviationValues) = 0 THEN 100
        ELSE MathRound(score)

\* Math.min(userLandmarks.length, goldStandardLandmarks.length)
minFramesOf(user, gold) == IF Len(user) <= Len(gold) THEN Len(user) ELSE Len(gold)

\* A variant of the frame loop that aligns the two sequences at their ends.
RECURSIVE CompareLoopFromEnd(_, _, _, _, _, _)
CompareLoopFromEnd(user, gold, minFrames, i, allDeviations, keyFrames) ==
    IF ~(i < minFrames) THEN [allDeviations |-> allDeviations, keyFrames |-> keyFrames]
    ELSE LET uAngles == calculateJointAngles(
                            At(user, i + Len(user) - minFrames).landmarks)
             gAngles == calculateJointAngles(
                            At(gold, i + Len(gold) - minFrames).landmarks)
             devs == calculateDeviations(uAngles, gAngles)
         IN  CompareLoopFromEnd(user, gold, minFrames, i + 1,
                                Append(allDeviations, devs),
                                IF hasSignificantDeviation(devs)
                                THEN Append(keyFrames, i) ELSE keyFrames)

\* The frame loop entered at i (0-based), with the two accumulators.
RECURSIVE CompareLoop(_, _, _, _, _, _)
CompareLoop(user, gold, minFrames, i, allDeviations, keyFrames) ==
    IF ~(i < minFrames) THEN [allDeviations |-> allDeviations, keyFrames |-> keyFrames]
    ELSE LET uAngles == calculateJointAngles(At(user, i).landmarks)
             gAngles == calculateJointAngles(At(gold, i).landmarks)
             devs == calculateDeviations(uAngles, gAngles)
         IN  CompareLoop(user, gold, minFrames, i + 1,
                         Append(allDeviations, devs),
                         IF hasSignificantDeviation(devs)
                         THEN Append(keyFrames, i) ELSE keyFrames)

comparePoses(user, gold) ==
    LET loop == CompareLoop(user, gold, minFramesOf(user, gold), 0, <<>>, <<>>)
        averageDeviations == calculateAverageDeviations(loop.allDeviations)
        overallScore == calculateOverallScore(averageDeviations)
    IN  [deviations |-> averageDeviations,
         overallScore |-> overallScore,
         keyFrames |-> loop.keyFrames]

-----------------------------------------------------------------------------
(* generateFeedback and its helpers                                        *)

BodySegments == {"shoulder", "elbow", "wrist", "hip", "knee", "ankle"}

\* segmentKey.split('_') for a key of two words joined by one underscore,
\* the words being side and segment names.
Split(segmentKey) ==
    CHOOSE parts \in {"left", "right"} \X BodySegments :
        parts[1] \o "_" \o parts[2] = segmentKey

\* side.charAt(0).toUpperCase() + side.slice(1)
Capitalize(side) == IF side = "left" THEN "Left" ELSE "Right"

generateFeedbackText(segment, side, deviation, severity) ==
    LET sideText == Capitalize(side)
        deviationText == ToString(MathRound(deviation)) \o "deg"
        angleText(name) ==
            sideText \o " " \o name \o " angle deviates by " \o deviationText
                     \o " from ideal form"
        feedbackTemplates ==
            [shoulder |->
                [description |-> angleText("shoulder"),
                 recommendation |-> "Focus on keeping your shoulder aligned with your target."],
             elbow |->
                [description |-> angleText("elbow"),
                 recommendation |-> "Keep your elbow at the proper height and angle."],
             wrist |->
                [description |-> angleText("wrist"),
                 recommendation |-> "Maintain a firm wrist position throughout the throw."],
             hip |->
                [description |-> angleText("hip"),
                 recommendation |-> "Engage your hips more in the throwing motion."],
             knee |->
                [description |-> angleText("knee"),
                 recommendation |-> "Check your stance and weight distribution."],
             ankle |->
                [description |-> sideText \o " ankle position deviates by "
                                         \o deviationText \o " from ideal form",
                 recommendation |-> "Ensure proper foot placement and ankle stability."]]
    IN  feedbackTemplates[segment]

severityOrder == [high |-> 0, medium |-> 1, low |-> 2]

\* A variant of CompareIssues that puts the smaller deviation first.
CompareIssuesAscending(a, b) ==
    IF a.severity # b.severity
    THEN severityOrder[a.severity] - severityOrder[b.severity]
    ELSE a.deviationDegrees - b.deviationDegrees

\* The comparator handed to issues.sort.
CompareIssues(a, b) ==
    IF a.severity # b.severity
    THEN severityOrder[a.severity] - severityOrder[b.severity]
    ELSE b.deviationDegrees - a.deviationDegrees

\* x put into the sorted sequence s behind every element that does not
\* compare greater than it (Array.prototype.sort is stable).
InsertIssue(s, x) ==
    LET before == {k \in 1..Len(s) : CompareIssues(s[k], x) <= 0}
        n == IF before = {} THEN 0
             ELSE CHOOSE k \in before : \A m \in before : m <= k
    IN  SubSeq(s, 1, n) \o <<x>> \o SubSeq(s, n + 1, Len(s))

RECURSIVE SortFrom(_, _, _)
SortFrom(issues, k, sorted) ==
    IF k > Len(issues) THEN sorted
    ELSE SortFrom(issues, k + 1, InsertIssue(sorted, issues[k]))

\* issues.sort((a, b) => ...)
SortIssues(issues) == SortFrom(issues, 1, <<>>)

\* A variant of IssueStep that does not skip 'low' entries.
IssueStepNoSkip(issues, entry) ==
    LET parts == Split(entry.key)
        text == generateFeedbackText(parts[2], parts[1], entry.deviation,
                                     entry.severity)
    IN  Append(issues,
               [segment |-> parts[2],
                severity |-> entry.severity,
                deviationDegrees |-> MathRound(entry.deviation),
                description |-> text.description,
                recommendation |-> text.recommendation])

\* A variant of IssueStep that reports Math.floor of the deviation.
IssueStepFloor(issues, entry) ==
    IF entry.severity = "low" THEN issues
    ELSE LET parts == Split(entry.key)
             side == parts[1]
             segment == parts[2]
             text == generateFeedbackText(segment, side, entry.deviation,
                                          entry.severity)
         IN  Append(issues,
                    [segment |-> segment,
                     severity |-> entry.severity,
                     deviationDegrees |-> entry.deviation.num \div entry.deviation.den,
                     description |-> text.description,
                     recommendation |-> text.recommendation])

\* The body of the loop over Object.entries(deviations) for one entry.
IssueStep(issues, entry) ==
    IF entry.severity = "low" THEN issues
    ELSE LET parts == Split(entry.key)
             side == parts[1]
             segment == parts[2]
             text == generateFeedbackText(segment, side, entry.deviation,
                                          entry.severity)
         IN  Append(issues,
                    [segment |-> segment,
                     severity |-> entry.severity,
                     deviationDegrees |-> MathRound(entry.deviation),
                     description |-> text.description,
                     recommendation |-> text.recommendation])

RECURSIVE IssueLoop(_, _, _)
IssueLoop(issues, deviations, k) ==
    IF k > Len(deviations) THEN issues
    ELSE IssueLoop(IssueStep(issues, deviations[k]), deviations, k + 1)

createFeedbackIssues(deviations) == SortIssues(IssueLoop(<<>>, deviations, 1))

upperBodySegments == {"shoulder", "elbow", "wrist"}
lowerBodySegments == {"hip", "knee", "ankle"}

overallIssue ==
    [segment |-> "shoulder",
     severity |-> "medium",
     deviationDegrees |-> 0,
     description |-> "Multiple form deviations detected across your throwing motion",
     recommendation |-> "Focus on the high-priority issues first, then work on refining your overall technique."]

\* A variant of categorizeIssues that adds "Overall Form" only above 3 issues.
categorizeIssuesMoreThan3(issues) ==
    LET IsUpper(issue) == issue.segment \in upperBodySegments
        IsLower(issue) == issue.segment \in lowerBodySegments
        upperBodyIssues == SelectSeq(issues, IsUpper)
        lowerBodyIssues == SelectSeq(issues, IsLower)
        c1 == IF Len(upperBodyIssues) > 0
              THEN <<[name |-> "Upper Body", issues |-> upperBodyIssues]>>
              ELSE <<>>
        c2 == IF Len(lowerBodyIssues) > 0
              THEN Append(c1, [name |-> "Lower Body", issues |-> lowerBodyIssues])
              ELSE c1
    IN  IF Len(issues) > 3
        THEN Append(c2, [name |-> "Overall Form", issues |-> <<overallIssue>>])
        ELSE c2

\* A variant of categorizeIssues that files wrist issues under "Lower Body".
categorizeIssuesWristLower(issues) ==
    LET IsUpper(issue) == issue.segment \in {"shoulder", "elbow"}
        IsLower(issue) == issue.segment \in {"wrist", "hip", "knee", "ankle"}
        upperBodyIssues == SelectSeq(issues, IsUpper)
        lowerBodyIssues == SelectSeq(issues, IsLower)
        c1 == IF Len(upperBodyIssues) > 0
              THEN <<[name |-> "Upper Body", issues |-> upperBodyIssues]>>
              ELSE <<>>
        c2 == IF Len(lowerBodyIssues) > 0
              THEN Append(c1, [name |-> "Lower Body", issues |-> lowerBodyIssues])
              ELSE c1
    IN  IF Len(issues) >= 3
        THEN Append(c2, [name |-> "Overall Form", issues |-> <<overallIssue>>])
        ELSE c2

categorizeIssues(issues) ==
    LET IsUpper(issue) == issue.segment \in upperBodySegments
        IsLower(issue) == issue.segment \in lowerBodySegments
        upperBodyIssues == SelectSeq(issues, IsUpper)
        lowerBodyIssues == SelectSeq(issues, IsLower)
        c1 == IF Len(upperBodyIssues) > 0
              THEN <<[name |-> "Upper Body", issues |-> upperBodyIssues]>>
              ELSE <<>>
        c2 == IF Len(lowerBodyIssues) > 0
              THEN Append(c1, [name |-> "Lower Body", issues |-> lowerBodyIssues])
              ELSE c1
    IN  IF Len(issues) >= 3
        THEN Append(c2, [name |-> "Overall Form", issues |-> <<overallIssue>>])
        ELSE c2

\* A variant of generateFeedback whose id is made of the clock reading alone.
generateFeedbackIdFromClock(cmp, videoUri, landmarks, now, random, date) ==
    LET issues == createFeedbackIssues(cmp.deviations)
        categories == categorizeIssues(issues)
        id == "analysis_" \o ToString(now)
    IN  [id |-> id,
         overallScore |-> cmp.overallScore,
         categories |-> categories,
         timestamp |-> date,
         videoUri |-> videoUri,
         userLandmarks |-> landmarks]

\* A variant of generateFeedback that does not hand the landmarks on.
generateFeedbackDropsLandmarks(cmp, videoUri, landmarks, now, random, date) ==
    LET issues == createFeedbackIssues(cmp.deviations)
        categories == categorizeIssues(issues)
        id == "analysis_" \o ToString(now) \o "_" \o random
    IN  [id |-> id,
         overallScore |-> cmp.overallScore,
         categories |-> categories,
         timestamp |-> date,
         videoUri |-> videoUri,
         userLandmarks |-> <<>>]

\* now: Date.now(); random: Math.random().toString(36).substr(2, 9);
\* date: new Date().
generateFeedback(cmp, videoUri, landmarks, now, random, date) ==
    LET issues == createFeedbackIssues(cmp.deviations)
        categories == categorizeIssues(issues)
        id == "analysis_" \o ToString(now) \o "_" \o random
    IN  [id |-> id,
         overallScore |-> cmp.overallScore,
         categories |-> categories,
         timestamp |-> date,
         videoUri |-> videoUri,
         userLandmarks |-> landmarks]

-----------------------------------------------------------------------------
(* Inputs: landmark arrays of a figure whose limbs take a few shapes.      *)
(* Coordinates are cells of a 64 x 64 grid laid over the frame (x and y    *)
(* normalised to 0..1 are the cell number over 64); z is in the same unit. *)

\* Longest frame sequence handed to comparePoses.
MaxFrames == 2

V(x, y, z) == [x |-> x, y |-> y, z |-> z]
Plus(p, d) == [x |-> p.x + d.x, y |-> p.y + d.y, z |-> p.z + d.z]

\* An arm is the steps shoulder -> elbow -> wrist -> index finger.
ArmStraight == <<V(0, 4, 0), V(0, 4, 0), V(0, 2, 0)>>
ArmLow      == <<V(0, 4, 0), V(1, 6, 0), V(1, 6, 0)>>
ArmMedium   == <<V(0, 4, 0), V(1, 4, 0), V(1, 4, 0)>>
ArmHigh     == <<V(0, 4, 0), V(0, 3, 1), V(0, 3, 1)>>
ArmBent     == <<V(4, 0, 0), V(0, -4, 0), V(-2, 0, 0)>>
\* The forearm turned 39.98 degrees away from the upper arm, the hand in line.
ArmElbow40  == <<V(0, 4, 0), V(6, 8, 3), V(6, 8, 3)>>
\* The forearm turned 10.3 degrees away from the upper arm, the hand in line.
ArmElbow10  == <<V(0, 4, 0), V(2, 11, 0), V(2, 11, 0)>>

\* A leg is the steps hip -> knee -> ankle.
LegStraight == <<V(0, 4, 0), V(0, 4, 0)>>
LegMedium   == <<V(0, 4, 0), V(1, 4, 0)>>
LegHigh     == <<V(0, 4, 0), V(1, 3, 0)>>
LegBent     == <<V(4, 0, 0), V(0, 4, 0)>>

\* The landmark array of a figure: slots that calculateJointAngles does not
\* read are padded with the origin.
LandmarksOf(leftArm, rightArm, leftLeg, rightLeg) ==
    LET I == PoseLandmarkIndex
        lHip == V(36, 30, 0)
        rHip == V(24, 30, 0)
        lShoulder == Plus(lHip, V(0, -10, 0))
        rShoulder == Plus(rHip, V(0, -10, 0))
        lElbow == Plus(lShoulder, leftArm[1])
        rElbow == Plus(rShoulder, rightArm[1])
        lWrist == Plus(lElbow, leftArm[2])
        rWrist == Plus(rElbow, rightArm[2])
        lKnee == Plus(lHip, leftLeg[1])
        rKnee == Plus(rHip, rightLeg[1])
        slot(i) ==
            CASE i = I.LEFT_SHOULDER  -> lShoulder
              [] i = I.RIGHT_SHOULDER -> rShoulder
              [] i = I.LEFT_ELBOW     -> lElbow
              [] i = I.RIGHT_ELBOW    -> rElbow
              [] i = I.LEFT_WRIST     -> lWrist
              [] i = I.RIGHT_WRIST    -> rWrist
              [] i = I.LEFT_INDEX     -> Plus(lWrist, leftArm[3])
              [] i = I.RIGHT_INDEX    -> Plus(rWrist, rightArm[3])
              [] i = I.LEFT_HIP       -> lHip
              [] i = I.RIGHT_HIP      -> rHip
              [] i = I.LEFT_KNEE      -> lKnee
              [] i = I.RIGHT_KNEE     -> rKnee
              [] i = I.LEFT_ANKLE     -> Plus(lKnee, leftLeg[2])
              [] i = I.RIGHT_ANKLE    -> Plus(rKnee, rightLeg[2])
              [] OTHER                -> V(0, 0, 0)
    IN  [k \in 1..NumLandmarks |-> slot(k - 1)]

\* Figures seen in the user's video.
UserPoses ==
    { LandmarksOf(ArmStraight, ArmStraight, LegStraight, LegStraight),
      LandmarksOf(ArmStraight, ArmMedium,   LegStraight, LegHigh),
      LandmarksOf(ArmLow,      ArmStraight, LegMedium,   LegStraight),
      LandmarksOf(ArmHigh,     ArmHigh,     LegMedium,   LegStraight),
      LandmarksOf(ArmBent,     ArmBent,     LegBent,     LegBent) }

\* Figures of the gold standard.
GoldPoses ==
    { LandmarksOf(ArmStraight, ArmStraight, LegStraight, LegStraight),
      LandmarksOf(ArmLow,      ArmStraight, LegMedium,   LegStraight) }

\* Milliseconds between two frames of the user's video and of the gold
\* standard's: the two are sampled at different rates.
UserFrameMs == 100
GoldFrameMs == 33

\* PoseLandmarkData[] showing the given figures in order.  worldLandmarks,
\* which AnalysisService never reads, is left out.
FramesOf(poses, frameMs) ==
    [k \in 1..Len(poses) |->
        [frameIndex |-> k - 1,
         timestamp |-> (k - 1) * frameMs,
         landmarks |-> poses[k]]]

SeqsUpTo(S, n) == UNION {[1..m -> S] : m \in 0..n}

VideoUri == "file:///videos/throw.mp4"

\* Readings of the clock and of Math.random() during generateFeedback.
Clock == {0, 1}
RandomSuffixes == {"k3x9q0b1z", "4fzyo82mv"}

-----------------------------------------------------------------------------
(* The pipeline: comparePoses, then generateFeedback on its result         *)

Init ==
    /\ pc = "start"
    /\ \E poses \in SeqsUpTo(UserPoses, MaxFrames) :
           userLandmarks = FramesOf(poses, UserFrameMs)
    /\ \E poses \in SeqsUpTo(GoldPoses, MaxFrames) :
           goldStandardLandmarks = FramesOf(poses, GoldFrameMs)
    /\ comparison = None
    /\ report = None
    /\ userAngles = None
    /\ goldAngles = None
    /\ frameDeviations = None
    /\ NoCollaborators
    /\ callArgs = None
    /\ callResult = None

ComparePoses ==
    /\ pc = "start"
    /\ comparison' = comparePoses(userLandmarks, goldStandardLandmarks)
    /\ pc' = "compared"
    /\ UNCHANGED <<userLandmarks, goldStandardLandmarks, report,
                   userAngles, goldAngles, frameDeviations,
                   callArgs, callResult>>
    /\ UNCHANGED collaboratorVars

GenerateFeedback ==
    /\ pc = "compared"
    /\ \E now \in Clock, date \in Clock, random \in RandomSuffixes :
           /\ date >= now
           /\ report' = generateFeedback(comparison, VideoUri, userLandmarks,
                                         now, random, date)
    /\ pc' = "reported"
    /\ UNCHANGED <<userLandmarks, goldStandardLandmarks, comparison,
                   userAngles, goldAngles, frameDeviations,
                   callArgs, callResult>>
    /\ UNCHANGED collaboratorVars

Next == ComparePoses \/ GenerateFeedback

Spec == Init /\ [][Next]_vars

-----------------------------------------------------------------------------
(* The pipeline run on a throw that differs from the gold standard at one  *)
(* elbow                                                                   *)

\* Figures of a user whose form is that of the gold standard except for an
\* elbow 40 degrees off, alone or together with a bent knee, or for an elbow
\* just over 10 degrees off.
ElbowPoses ==
    { LandmarksOf(ArmStraight, ArmStraight, LegStraight, LegStraight),
      LandmarksOf(ArmStraight, ArmElbow40,  LegStraight, LegStraight),
      LandmarksOf(ArmElbow40,  ArmStraight, LegStraight, LegStraight),
      LandmarksOf(ArmStraight, ArmElbow40,  LegStraight, LegMedium),
      LandmarksOf(ArmElbow10,  ArmStraight, LegStraight, LegStraight) }

InitElbow ==
    /\ pc = "start"
    /\ \E poses \in SeqsUpTo(ElbowPoses, MaxFrames) :
           userLandmarks = FramesOf(poses, UserFrameMs)
    /\ \E poses \in SeqsUpTo({LandmarksOf(ArmStraight, ArmStraight,
                                          LegStraight, LegStraight)}, MaxFrames) :
           goldStandardLandmarks = FramesOf(poses, GoldFrameMs)
    /\ comparison = None
    /\ report = None
    /\ userAngles = None
    /\ goldAngles = None
    /\ frameDeviations = None
    /\ NoCollaborators
    /\ callArgs = None
    /\ callResult = None

SpecElbow == InitElbow /\ [][Next]_vars

-----------------------------------------------------------------------------
(* generateFeedback called several times in one process                    *)

\* Most invocations of generateFeedback in a process.
MaxReports == 3

\* The characters of a sequence joined into a string, from place k on.
RECURSIVE JoinFrom(_, _)
JoinFrom(chars, k) ==
    IF k > Len(chars) THEN "" ELSE chars[k] \o JoinFrom(chars, k + 1)

\* str.substr(start, length) on a sequence of characters.
Substr(chars, start, length) ==
    SubSeq(chars, start + 1,
           IF start + length < Len(chars) THEN start + length ELSE Len(chars))

\* x.toString(36) for a number 0 <= x < 1 given by its base-36 digits after
\* the point.
ToString36(digits) == IF digits = <<>> THEN <<"0">> ELSE <<"0", ".">> \o digits

\* Math.random().toString(36).substr(2, 9)
RandomSuffix(digits) == JoinFrom(Substr(ToString36(digits), 2, 9), 1)

\* Values of Math.random(), as base-36 digits after the point: 0, one half,
\* and numbers of nine, ten and eleven digits, two of which agree in the
\* first nine.
RandomDraws ==
    { <<>>,
      <<"i">>,
      <<"k", "3", "x", "9", "q", "0", "b", "1", "z">>,
      <<"k", "3", "x", "9", "q", "0", "b", "1", "z", "7">>,
      <<"4", "f", "z", "y", "o", "8", "2", "m", "v", "c", "w">> }

\* The frames a report is made for.
ReportedFrames ==
    { <<>>,
      FramesOf(<<LandmarksOf(ArmStraight, ArmElbow40, LegStraight, LegStraight)>>,
               UserFrameMs) }

InitReports ==
    /\ pc = "reporting"
    /\ \E frames \in ReportedFrames :
           callArgs = <<comparePoses(frames,
                                     FramesOf(<<LandmarksOf(ArmStraight, ArmStraight,
                                                            LegStraight, LegStraight)>>,
                                              GoldFrameMs)),
                        frames>>
    /\ callResult = <<>>
    /\ userLandmarks = <<>>
    /\ goldStandardLandmarks = <<>>
    /\ comparison = None
    /\ report = None
    /\ userAngles = None
    /\ goldAngles = None
    /\ frameDeviations = None
    /\ NoCollaborators

\* One invocation of generateFeedback; the clock does not run backwards.
\* callResult keeps, per invocation, the clock reading, the random number
\* drawn and the report returned.
GenerateReport ==
    /\ pc = "reporting"
    /\ Len(callResult) < MaxReports
    /\ \E now \in Clock, date \in Clock, digits \in RandomDraws :
           /\ date >= now
           /\ callResult # <<>> => now >= callResult[Len(callResult)].date
           /\ callResult' =
                  Append(callResult,
                         [now |-> now, date |-> date, digits |-> digits,
                          report |-> generateFeedback(callArgs[1], VideoUri, callArgs[2],
                                                      now, RandomSuffix(digits), date)])
    /\ UNCHANGED <<pc, userLandmarks, goldStandardLandmarks, comparison, report,
                   userAngles, goldAngles, frameDeviations, callArgs>>
    /\ UNCHANGED collaboratorVars

NextReports == GenerateReport

SpecReports == InitReports /\ [][NextReports]_vars

-----------------------------------------------------------------------------
(* PoseDetectionService (services/PoseDetectionService.ts, MoveNet)        *)
(*                                                                         *)
(* detector and isInitialized are the fields of the one service object.    *)
(* running holds the calls of its async methods that are suspended at an   *)
(* await, each with its local variables and the place it waits at; one     *)
(* action runs a call from one await to the next, as the event loop does.  *)
(* log is the sequence of calls made and of their outcomes.                *)

\* Keypoints of a MoveNet pose.
MoveNetKeypoints == 17

\* Most calls made on the service.
MaxCalls == 3

\* Most frames of a video.
MaxVideoFrames == 3

\* value || 0 for a property that may be missing.
OrZero(kp, field) == IF field \in DOMAIN kp THEN kp[field] ELSE 0

\* pose.keypoints.map((kp) => ({x: kp.x || 0, y: kp.y || 0, z: 0,
\*                              visibility: kp.score || 0}))
keypointsToLandmarks(keypoints) ==
    [k \in 1..Len(keypoints) |->
        [x |-> OrZero(keypoints[k], "x"),
         y |-> OrZero(keypoints[k], "y"),
         z |-> 0,
         visibility |-> OrZero(keypoints[k], "score")]]

\* The keypoints MoveNet gives for a person: pixel coordinates and a score,
\* the score missing on the last one.
PersonKeypoints ==
    [k \in 1..MoveNetKeypoints |->
        IF k < MoveNetKeypoints
        THEN [x |-> 10 * k, y |-> 5 * k, score |-> 1]
        ELSE [x |-> 10 * k, y |-> 5 * k]]

\* What detector.estimatePoses can settle with: a rejection, or a list of
\* poses that is empty, holds a pose without keypoints, or holds a person.
Rejected == "rejected"
EstimateOutcomes ==
    { Rejected,
      <<>>,
      <<[score |-> 0]>>,
      <<[keypoints |-> PersonKeypoints, score |-> 1]>> }

\* The part of detectPoseInFrame after await this.detector.estimatePoses:
\* null, the landmarks, or the error of the catch block.  A method's
\* outcome is [value], [returned] for null and undefined, or [error].
Returned(nothing) == [returned |-> nothing]
PoseDetectionFailed == [error |-> "POSE_DETECTION_FAILED", recoverable |-> TRUE]
detectPoseInFrameResult(poses) ==
    IF poses = Rejected THEN PoseDetectionFailed
    ELSE IF Len(poses) = 0 \/ "keypoints" \notin DOMAIN poses[1] THEN Returned("null")
    ELSE [value |-> keypointsToLandmarks(poses[1].keypoints)]

\* The guard at the head of the three detect methods.
NotInitialized == ~isInitialized \/ detector = None

\* The frames videoProcessingService.extractFrames gives at 10 frames a
\* second; imageData is not looked into.
ExtractedFrames(n) ==
    [k \in 1..n |-> [index |-> k - 1, timestamp |-> (k - 1) * 100]]

\* A variant of the statements behind the loop that asks for more than half
\* of the frames.
detectPosesOutcomeAbove50(call) ==
    IF Len(call.results) = 0
    THEN [error |-> "NO_PERSON_DETECTED", recoverable |-> TRUE]
    ELSE IF ~RGt(RMulInt(Rat(Len(call.results), Len(call.frames)), 100), Num(50))
    THEN [error |-> "INSUFFICIENT_FRAMES", recoverable |-> TRUE]
    ELSE [value |-> call.results]

\* The statements of detectPosesInVideo and detectPosesInFrames behind the
\* loop.
detectPosesOutcome(call) ==
    IF Len(call.results) = 0
    THEN [error |-> "NO_PERSON_DETECTED", recoverable |-> TRUE]
    ELSE IF ~RGe(RMulInt(Rat(Len(call.results), Len(call.frames)), 100), Num(50))
    THEN [error |-> "INSUFFICIENT_FRAMES", recoverable |-> TRUE]
    ELSE [value |-> call.results]

\* The loop body behind await this.detectPoseInFrame(...), for the frame the
\* call waits on: the record is pushed or failedFrames counted, then
\* processedFrames++ and onProgress.
FrameDone(call, settled) ==
    LET frame == call.frames[call.processedFrames + 1]
        landed == "value" \in DOMAIN settled
        processedFrames == call.processedFrames + 1
    IN  [call EXCEPT
            !.results = IF landed
                        THEN Append(@, [frameIndex |-> frame.index,
                                        timestamp |-> frame.timestamp,
                                        landmarks |-> settled.value,
                                        worldLandmarks |-> <<>>])
                        ELSE @,
            !.failedFrames = IF landed THEN @ ELSE @ + 1,
            !.processedFrames = processedFrames,
            !.attempts = Append(@, settled),
            !.progress = Append(@, MathRound(RMulInt(Rat(processedFrames, Len(call.frames)),
                                                     100)))]

\* The head of the loop: with no frame left the call is over, otherwise
\* detectPoseInFrame is called on the next frame and runs to its guard, or on
\* to estimatePoses, before the loop waits on it.
LoopHead(call) ==
    IF call.processedFrames = Len(call.frames) THEN [call EXCEPT !.at = "done"]
    ELSE IF NotInitialized THEN [call EXCEPT !.at = "guard"]
    ELSE [call EXCEPT !.at = "estimatePoses"]

RemoveAt(s, k) == SubSeq(s, 1, k - 1) \o SubSeq(s, k + 1, Len(s))

\* What is written to the log when a call is over: how it ended, without
\* the landmarks it may have returned.  The outcome of the detect call that
\* ended last is kept whole in callResult, which a new detect call clears.
Brief(result) == IF "value" \in DOMAIN result THEN Returned("value") ELSE result
Outcome(call, result) ==
    [op |-> call.op, call |-> call.id, phase |-> "settled", result |-> Brief(result)]
Called(op) == [op |-> op, call |-> Len(log), phase |-> "called"]

CallsMade == Cardinality({k \in 1..Len(log) : log[k].phase = "called"})

\* callResult while no detect call has ended.
NoCall == [call |-> [op |-> None], outcome |-> [pending |-> TRUE]]

InitService ==
    /\ pc = "service"
    /\ detector = None
    /\ isInitialized = FALSE
    /\ running = <<>>
    /\ log = <<>>
    /\ screen = None
    /\ storage = None
    /\ callArgs = None
    /\ callResult = NoCall
    /\ userLandmarks = <<>>
    /\ goldStandardLandmarks = <<>>
    /\ comparison = None
    /\ report = None
    /\ userAngles = None
    /\ goldAngles = None
    /\ frameDeviations = None

serviceOnly == <<pc, userLandmarks, goldStandardLandmarks, comparison, report,
                 userAngles, goldAngles, frameDeviations, callArgs, screen, storage>>

CanCall == pc = "service" /\ CallsMade < MaxCalls
\* Clients wait for initialize before they call it again, and for a detect
\* method before they call another; dispose, isReady and a call of the other
\* kind may come at any time.
DetectOps == {"detectPoseInFrame", "detectPosesInVideo", "detectPosesInFrames"}
Pending(ops) == \E k \in 1..Len(running) : running[k].op \in ops

\* initialize(), up to await tf.ready().
Initialize ==
    /\ CanCall /\ ~Pending({"initialize"})
    /\ running' = Append(running, [op |-> "initialize", id |-> Len(log), at |-> "tf.ready"])
    /\ log' = Append(log, Called("initialize"))
    /\ UNCHANGED <<detector, isInitialized, callResult>>
    /\ UNCHANGED serviceOnly

\* tf.ready() settles: on to await createDetector, or the outer catch.
TfReady ==
    /\ pc = "service"
    /\ \E k \in 1..Len(running) :
        /\ running[k].op = "initialize" /\ running[k].at = "tf.ready"
        /\ \/ /\ running' = [running EXCEPT ![k].at = "createDetector"]
              /\ log' = log
           \/ /\ running' = RemoveAt(running, k)
              /\ log' = Append(log, Outcome(running[k],
                                            [error |-> "MODEL_LOAD_FAILED",
                                             recoverable |-> FALSE]))
    /\ UNCHANGED <<detector, isInitialized, callResult>>
    /\ UNCHANGED serviceOnly

\* createDetector settles: the detector is kept and isInitialized set, or the
\* inner catch throws.  A detector is named after the call that made it.
CreateDetector ==
    /\ pc = "service"
    /\ \E k \in 1..Len(running) :
        /\ running[k].op = "initialize" /\ running[k].at = "createDetector"
        /\ running' = RemoveAt(running, k)
        /\ \/ /\ detector' = "detector" \o ToString(running[k].id)
              /\ isInitialized' = TRUE
              /\ log' = Append(log, Outcome(running[k], Returned("undefined")))
           \/ /\ UNCHANGED <<detector, isInitialized>>
              /\ log' = Append(log, Outcome(running[k],
                                            [error |-> "MODEL_LOAD_FAILED",
                                             recoverable |-> TRUE]))
    /\ UNCHANGED callResult
    /\ UNCHANGED serviceOnly

\* A variant of dispose() that leaves isInitialized as it is.
DisposeKeepsFlag ==
    /\ CanCall
    /\ detector' = None
    /\ log' = log \o <<Called("dispose"),
                       Outcome([op |-> "dispose", id |-> Len(log)], Returned("undefined"))>>
    /\ UNCHANGED <<isInitialized, running, callResult>>
    /\ UNCHANGED serviceOnly

\* dispose()
Dispose ==
    /\ CanCall
    /\ detector' = None
    /\ isInitialized' = FALSE
    /\ log' = log \o <<Called("dispose"),
                       Outcome([op |-> "dispose", id |-> Len(log)], Returned("undefined"))>>
    /\ UNCHANGED <<running, callResult>>
    /\ UNCHANGED serviceOnly

\* isReady()
IsReady ==
    /\ CanCall
    /\ log' = log \o <<Called("isReady"),
                       Outcome([op |-> "isReady", id |-> Len(log)],
                               Returned(isInitialized))>>
    /\ UNCHANGED <<detector, isInitialized, running, callResult>>
    /\ UNCHANGED serviceOnly

\* detectPoseInFrame(imageData, timestamp) called by a client, up to the
\* guard or to await this.detector.estimatePoses.
DetectPoseInFrame ==
    /\ CanCall
    /\ IF NotInitialized
       THEN /\ log' = log \o <<Called("detectPoseInFrame"),
                               Outcome([op |-> "detectPoseInFrame", id |-> Len(log)],
                                       PoseDetectionFailed)>>
            /\ UNCHANGED running
       ELSE /\ ~Pending(DetectOps)
            /\ log' = Append(log, Called("detectPoseInFrame"))
            /\ running' = Append(running, [op |-> "detectPoseInFrame", id |-> Len(log),
                                           at |-> "estimatePoses"])
    /\ callResult' = NoCall
    /\ UNCHANGED <<detector, isInitialized>>
    /\ UNCHANGED serviceOnly

\* estimatePoses settles for a detectPoseInFrame called by a client.
EstimatePoses ==
    /\ pc = "service"
    /\ \E k \in 1..Len(running), poses \in EstimateOutcomes :
        /\ running[k].op = "detectPoseInFrame"
        /\ running' = RemoveAt(running, k)
        /\ log' = Append(log, Outcome(running[k], detectPoseInFrameResult(poses)))
        /\ callResult' = [call |-> running[k], outcome |-> detectPoseInFrameResult(poses)]
    /\ UNCHANGED <<detector, isInitialized>>
    /\ UNCHANGED serviceOnly

\* A call of detectPosesInVideo or detectPosesInFrames that has its frames.
NewLoop(op, frames) ==
    [op |-> op, id |-> Len(log), at |-> "loop", frames |-> frames, results |-> <<>>,
     processedFrames |-> 0, failedFrames |-> 0, attempts |-> <<>>, progress |-> <<>>]

\* detectPosesInVideo(videoUri, videoProcessingService, onProgress), up to
\* the guard or to await extractFrames.
DetectPosesInVideo ==
    /\ CanCall
    /\ IF NotInitialized
       THEN /\ log' = log \o <<Called("detectPosesInVideo"),
                               Outcome([op |-> "detectPosesInVideo", id |-> Len(log)],
                                       PoseDetectionFailed)>>
            /\ UNCHANGED running
       ELSE /\ ~Pending(DetectOps)
            /\ log' = Append(log, Called("detectPosesInVideo"))
            /\ running' = Append(running, [op |-> "detectPosesInVideo", id |-> Len(log),
                                           at |-> "extractFrames"])
    /\ callResult' = NoCall
    /\ UNCHANGED <<detector, isInitialized>>
    /\ UNCHANGED serviceOnly

\* The loop has run to its end: the outcome is logged and the finished call
\* kept in callResult.
Finish(k, call) ==
    IF call.at = "done"
    THEN /\ running' = RemoveAt(running, k)
         /\ log' = Append(log, Outcome(call, detectPosesOutcome(call)))
         /\ callResult' = [call |-> call, outcome |-> detectPosesOutcome(call)]
    ELSE /\ running' = [running EXCEPT ![k] = call]
         /\ UNCHANGED <<log, callResult>>

\* extractFrames settles: its rejection leaves detectPosesInVideo as it is,
\* otherwise the loop starts on the frames.
ExtractFrames ==
    /\ pc = "service"
    /\ \E k \in 1..Len(running) :
        /\ running[k].op = "detectPosesInVideo" /\ running[k].at = "extractFrames"
        /\ \/ \E n \in 0..MaxVideoFrames :
                  Finish(k, LoopHead([NewLoop("detectPosesInVideo", ExtractedFrames(n))
                                          EXCEPT !.id = running[k].id]))
           \/ /\ running' = RemoveAt(running, k)
              /\ log' = Append(log, Outcome(running[k],
                                            [error |-> "VIDEO_PROCESSING_FAILED",
                                             recoverable |-> TRUE]))
              /\ UNCHANGED callResult
    /\ UNCHANGED <<detector, isInitialized>>
    /\ UNCHANGED serviceOnly

\* detectPosesInFrames(frames, onProgress), up to the guard, to the end when
\* there is no frame, or to the first await of the loop.
DetectPosesInFrames ==
    /\ CanCall
    /\ IF NotInitialized
       THEN /\ log' = log \o <<Called("detectPosesInFrames"),
                               Outcome([op |-> "detectPosesInFrames", id |-> Len(log)],
                                       PoseDetectionFailed)>>
            /\ callResult' = NoCall
            /\ UNCHANGED running
       ELSE \E n \in 0..MaxVideoFrames :
                LET call == LoopHead(NewLoop("detectPosesInFrames", ExtractedFrames(n)))
                IN  IF call.at = "done"
                    THEN /\ log' = log \o <<Called("detectPosesInFrames"),
                                            Outcome(call, detectPosesOutcome(call))>>
                         /\ callResult' = [call |-> call, outcome |-> detectPosesOutcome(call)]
                         /\ UNCHANGED running
                    ELSE /\ ~Pending(DetectOps)
                         /\ log' = Append(log, Called("detectPosesInFrames"))
                         /\ running' = Append(running, call)
                         /\ callResult' = NoCall
    /\ UNCHANGED <<detector, isInitialized>>
    /\ UNCHANGED serviceOnly

\* The detectPoseInFrame a loop waits on settles: at its guard with the
\* error thrown there, at estimatePoses with what the estimator gave.  The
\* loop body runs on to the next await or to the end of the method.
FrameSettles ==
    /\ pc = "service"
    /\ \E k \in 1..Len(running) :
        /\ running[k].op \in {"detectPosesInVideo", "detectPosesInFrames"}
        /\ \/ /\ running[k].at = "guard"
              /\ Finish(k, LoopHead(FrameDone(running[k], PoseDetectionFailed)))
           \/ /\ running[k].at = "estimatePoses"
              /\ \E poses \in EstimateOutcomes :
                     Finish(k, LoopHead(FrameDone(running[k],
                                                  detectPoseInFrameResult(poses))))
    /\ UNCHANGED <<detector, isInitialized>>
    /\ UNCHANGED serviceOnly

NextService ==
    \/ Initialize
    \/ TfReady
    \/ CreateDetector
    \/ Dispose
    \/ IsReady
    \/ DetectPoseInFrame
    \/ EstimatePoses
    \/ DetectPosesInVideo
    \/ ExtractFrames
    \/ DetectPosesInFrames
    \/ FrameSettles

SpecService == InitService /\ [][NextService]_vars

-----------------------------------------------------------------------------
(* StorageService (services/StorageService.ts)                             *)
(*                                                                         *)
(* storage is the MMKV instance, a mapping from keys to texts.  running    *)
(* holds the saveAnalysis calls suspended at their await, each with its    *)
(* local variables, in the order in which they will resume; log is the     *)
(* sequence of ids saveAnalysis has returned.                              *)

\* Most calls of saveAnalysis.
MaxSaves == 3

ANALYSIS_HISTORY == "analysis_history"

\* A Date object and a string, as values of report.timestamp.
NewDate(ms) == [type |-> "Date", ms |-> ms]
Str(text) == [type |-> "string", text |-> text]

\* Date.prototype.toISOString for the first seconds of 1970.
ISOString(ms) ==
    "1970-01-01T00:00:0" \o ToString(ms \div 1000) \o "."
        \o ToString((ms % 1000) \div 100) \o ToString((ms % 100) \div 10)
        \o ToString(ms % 10) \o "Z"

\* JSON.stringify of a StoredAnalysis[]: a text, held as the value it
\* denotes, in which a Date has become its ISO string.
ToJSON(value) == IF value.type = "Date" THEN Str(ISOString(value.ms)) ELSE value
JSONStringify(history) ==
    [json |-> [k \in 1..Len(history) |->
                  [history[k] EXCEPT !.report.timestamp = ToJSON(@)]]]

\* JSON.parse
JSONParse(text) == text.json

\* An AnalysisReport as generateFeedback makes it of a comparison without
\* deviations, at a clock reading and with a random suffix.
ReportAt(now, random) ==
    [id |-> "analysis_" \o ToString(now) \o "_" \o random,
     overallScore |-> 100,
     categories |-> <<>>,
     timestamp |-> NewDate(now),
     videoUri |-> VideoUri,
     userLandmarks |-> <<>>]

\* The AnalysisReports handed to saveAnalysis.
ReportsToSave == {ReportAt(now, random) : now \in Clock, random \in RandomSuffixes}

\* const storedAnalysis = {id, timestamp, videoUri, report}
StoredAnalysisOf(r) ==
    [id |-> r.id, timestamp |-> r.timestamp.ms, videoUri |-> r.videoUri, report |-> r]

\* getAnalysisHistory(): it has no await, so it runs to its end within the
\* call, on the storage as it is then.
getAnalysisHistory(mmkv) ==
    IF ANALYSIS_HISTORY \notin DOMAIN mmkv THEN <<>>
    ELSE JSONParse(mmkv[ANALYSIS_HISTORY])

\* getAnalysisById(id): history.find((item) => item.id === id) || null
getAnalysisById(mmkv, id) ==
    LET history == getAnalysisHistory(mmkv)
        found == {k \in 1..Len(history) : history[k].id = id}
    IN  IF found = {} THEN [returned |-> "null"]
        ELSE [value |-> history[CHOOSE k \in found : \A m \in found : k <= m]]

\* storage.set(key, text)
MMKVSet(mmkv, key, text) ==
    [k \in DOMAIN mmkv \cup {key} |-> IF k = key THEN text ELSE mmkv[k]]

\* An analysis saved in an earlier session.
EarlierAnalysis == StoredAnalysisOf(ReportAt(0, "0earlier0"))

InitStorage ==
    /\ pc = "storage"
    /\ \/ storage = <<>>
       \/ storage = MMKVSet(<<>>, ANALYSIS_HISTORY, JSONStringify(<<EarlierAnalysis>>))
    /\ running = <<>>
    /\ log = <<>>
    /\ detector = None
    /\ isInitialized = FALSE
    /\ screen = None
    /\ callArgs = None
    /\ callResult = None
    /\ userLandmarks = <<>>
    /\ goldStandardLandmarks = <<>>
    /\ comparison = None
    /\ report = None
    /\ userAngles = None
    /\ goldAngles = None
    /\ frameDeviations = None

storageOnly == <<pc, userLandmarks, goldStandardLandmarks, comparison, report,
                 userAngles, goldAngles, frameDeviations, callArgs, callResult,
                 detector, isInitialized, screen>>

\* saveAnalysis(report), up to await this.getAnalysisHistory(): the history
\* has been read already.
SaveAnalysis ==
    /\ pc = "storage"
    /\ Len(log) + Len(running) < MaxSaves
    /\ \E r \in ReportsToSave :
           /\ \A k \in 1..Len(log) : log[k] # r.id
           /\ \A k \in 1..Len(running) : running[k].storedAnalysis.id # r.id
           /\ running' = Append(running, [op |-> "saveAnalysis",
                                          storedAnalysis |-> StoredAnalysisOf(r),
                                          history |-> getAnalysisHistory(storage)])
    /\ UNCHANGED <<storage, log>>
    /\ UNCHANGED storageOnly

\* The saveAnalysis that has waited longest resumes: history.push, storage.set
\* and return report.id.
SaveAnalysisResumes ==
    /\ pc = "storage"
    /\ running # <<>>
    /\ storage' = MMKVSet(storage, ANALYSIS_HISTORY,
                          JSONStringify(Append(running[1].history,
                                               running[1].storedAnalysis)))
    /\ log' = Append(log, running[1].storedAnalysis.id)
    /\ running' = Tail(running)
    /\ UNCHANGED storageOnly

NextStorage == SaveAnalysis \/ SaveAnalysisResumes

SpecStorage == InitStorage /\ [][NextStorage]_vars

-----------------------------------------------------------------------------
(* ProcessingScreen (app/analysis/processing.tsx)                          *)
(*                                                                         *)
(* screen holds the component's state variables, whether it is mounted,    *)
(* and the route the router shows.  running holds the runs of processVideo *)
(* suspended at an await, each with the isCancelled its closure captured   *)
(* when the component function was run; detector and isInitialized belong  *)
(* to poseDetectionService.current.  log records handleCancel and what the *)
(* runs do to the progress display and the router.                         *)

\* Most runs of processVideo on one screen.
MaxRuns == 2

\* Date.now() - startTime.current, in milliseconds.
ElapsedMs == {0, 2500}

\* Math.ceil
MathCeil(a) == -((-a.num) \div a.den)

\* A state setter: React drops the update of a component that is unmounted.
SetState(s, field, value) == IF s.mounted THEN [s EXCEPT ![field] = value] ELSE s

\* What a run does to the display and the router: the screen behind it and
\* the log with the event appended.
Effect(ui, run, event) ==
    [ui EXCEPT !.log = Append(@, [event |-> event, run |-> run.id,
                                  mounted |-> ui.screen.mounted])]

\* The onProgress callback handed to detectPosesInVideo.
onProgress(ui, run, progressPercent, elapsed) ==
    IF run.isCancelled THEN ui
    ELSE LET currentFrameNum == (progressPercent * run.estimatedFrames) \div 100
             estimatedTotal == RMulInt(Rat(elapsed, progressPercent), 100)
             remaining == RMax(Num(0), RSub(estimatedTotal, Num(elapsed)))
             s1 == SetState(ui.screen, "progress", progressPercent)
             s2 == SetState(s1, "currentFrame", currentFrameNum)
             s3 == SetState(s2, "estimatedTimeRemaining",
                            MathCeil(RDivInt(remaining, 1000)))
         IN  Effect(Effect(Effect([ui EXCEPT !.screen = s3], run, "setProgress"),
                           run, "setCurrentFrame"),
                    run, "setEstimatedTimeRemaining")

\* The catch block of processVideo.
Catch(ui, err) ==
    [ui EXCEPT !.screen = SetState(SetState(@, "error", err.error),
                                   "showErrorDialog", TRUE)]

\* The end of processVideo behind await detectPosesInVideo.
AfterDetection(ui, run, outcome) ==
    IF "error" \in DOMAIN outcome THEN Catch(ui, outcome)
    ELSE IF run.isCancelled THEN ui
    ELSE Effect([ui EXCEPT !.screen.route = "/analysis/results"], run, "router.push")

InitScreen ==
    /\ pc = "screen"
    /\ screen = [mounted |-> TRUE, route |-> "/analysis/processing",
                 progress |-> 0, currentFrame |-> 0, totalFrames |-> 0,
                 estimatedTimeRemaining |-> -1, error |-> None,
                 showErrorDialog |-> FALSE, isCancelled |-> FALSE,
                 isInitializing |-> TRUE, runs |-> 0]
    /\ detector = None
    /\ isInitialized = FALSE
    /\ running = <<>>
    /\ log = <<>>
    /\ storage = None
    /\ callArgs = None
    /\ callResult = None
    /\ userLandmarks = <<>>
    /\ goldStandardLandmarks = <<>>
    /\ comparison = None
    /\ report = None
    /\ userAngles = None
    /\ goldAngles = None
    /\ frameDeviations = None

screenOnly == <<pc, userLandmarks, goldStandardLandmarks, comparison, report,
                userAngles, goldAngles, frameDeviations, callArgs, callResult, storage>>

\* processVideo(), up to await initialize() and in there to await tf.ready().
\* The closure holds the isCancelled of the render it was made in.
NewRun(s) ==
    [id |-> s.runs + 1, isCancelled |-> s.isCancelled, at |-> "tf.ready",
     estimatedFrames |-> 0, call |-> [op |-> None]]

\* The run ends, or goes on waiting.
Continue(k, run, ui) ==
    /\ running' = IF run.at = "done" THEN RemoveAt(running, k)
                  ELSE [running EXCEPT ![k] = run]
    /\ screen' = ui.screen
    /\ log' = ui.log

UI == [screen |-> screen, log |-> log]

\* useEffect on mount: processVideo().
Mount ==
    /\ pc = "screen"
    /\ screen.runs = 0
    /\ running' = Append(running, NewRun(screen))
    /\ screen' = [SetState(screen, "isInitializing", TRUE) EXCEPT !.runs = 1]
    /\ UNCHANGED <<detector, isInitialized, log>>
    /\ UNCHANGED screenOnly

\* tf.ready() settles.
ScreenTfReady ==
    /\ pc = "screen"
    /\ \E k \in 1..Len(running) :
        /\ running[k].at = "tf.ready"
        /\ \/ Continue(k, [running[k] EXCEPT !.at = "createDetector"], UI)
           \/ Continue(k, [running[k] EXCEPT !.at = "done"],
                       Catch(UI, [error |-> "MODEL_LOAD_FAILED", recoverable |-> FALSE]))
    /\ UNCHANGED <<detector, isInitialized>>
    /\ UNCHANGED screenOnly

\* createDetector settles; behind a successful initialize() processVideo goes
\* on to await getVideoDuration.
ScreenCreateDetector ==
    /\ pc = "screen"
    /\ \E k \in 1..Len(running) :
        /\ running[k].at = "createDetector"
        /\ \/ /\ detector' = "detector" \o ToString(running[k].id)
              /\ isInitialized' = TRUE
              /\ Continue(k, [running[k] EXCEPT !.at = "getVideoDuration"],
                          [UI EXCEPT !.screen = SetState(@, "isInitializing", FALSE)])
           \/ /\ UNCHANGED <<detector, isInitialized>>
              /\ Continue(k, [running[k] EXCEPT !.at = "done"],
                          Catch(UI, [error |-> "MODEL_LOAD_FAILED", recoverable |-> TRUE]))
    /\ UNCHANGED screenOnly

\* getVideoDuration settles with a duration of n tenths of a second:
\* setTotalFrames, then detectPosesInVideo is called and runs to its guard or
\* to await extractFrames.
GetVideoDuration ==
    /\ pc = "screen"
    /\ \E k \in 1..Len(running) :
        /\ running[k].at = "getVideoDuration"
        /\ \/ \E n \in 0..MaxVideoFrames :
                LET ui == [UI EXCEPT !.screen = SetState(@, "totalFrames", n)]
                IN  IF NotInitialized
                    THEN Continue(k, [running[k] EXCEPT !.at = "done"],
                                  Catch(ui, PoseDetectionFailed))
                    ELSE Continue(k, [running[k] EXCEPT !.at = "extractFrames",
                                                        !.estimatedFrames = n], ui)
           \/ Continue(k, [running[k] EXCEPT !.at = "done"],
                       Catch(UI, [error |-> "VIDEO_PROCESSING_FAILED",
                                  recoverable |-> TRUE]))
    /\ UNCHANGED <<detector, isInitialized>>
    /\ UNCHANGED screenOnly

\* The run with its detectPosesInVideo at the head of the loop.
AtLoopHead(k, run, call, ui) ==
    IF call.at = "done"
    THEN Continue(k, [run EXCEPT !.at = "done", !.call = call],
                  AfterDetection(ui, run, detectPosesOutcome(call)))
    ELSE Continue(k, [run EXCEPT !.at = call.at, !.call = call], ui)

\* extractFrames settles with the frames of the video.
ScreenExtractFrames ==
    /\ pc = "screen"
    /\ \E k \in 1..Len(running) :
        /\ running[k].at = "extractFrames"
        /\ \/ AtLoopHead(k, running[k],
                         LoopHead(NewLoop("detectPosesInVideo",
                                          ExtractedFrames(running[k].estimatedFrames))),
                         UI)
           \/ Continue(k, [running[k] EXCEPT !.at = "done"],
                       Catch(UI, [error |-> "VIDEO_PROCESSING_FAILED",
                                  recoverable |-> TRUE]))
    /\ UNCHANGED <<detector, isInitialized>>
    /\ UNCHANGED screenOnly

\* The detectPoseInFrame the loop waits on settles: the loop body with its
\* onProgress callback, then the next frame or the end of processVideo.
ScreenFrameSettles ==
    /\ pc = "screen"
    /\ \E k \in 1..Len(running), elapsed \in ElapsedMs :
        /\ running[k].at \in {"guard", "estimatePoses"}
        /\ \E settled \in IF running[k].at = "guard" THEN {PoseDetectionFailed}
                          ELSE {detectPoseInFrameResult(poses) : poses \in EstimateOutcomes} :
               LET call == FrameDone(running[k].call, settled)
               IN  AtLoopHead(k, running[k], LoopHead(call),
                              onProgress(UI, running[k],
                                         call.progress[Len(call.progress)], elapsed))
    /\ UNCHANGED <<detector, isInitialized>>
    /\ UNCHANGED screenOnly

\* handleCancel, on the Cancel button of the mounted screen.
HandleCancel ==
    /\ pc = "screen"
    /\ screen.mounted /\ screen.route = "/analysis/processing"
    /\ screen' = [SetState(screen, "isCancelled", TRUE) EXCEPT !.route = "back"]
    /\ detector' = None
    /\ isInitialized' = FALSE
    /\ log' = Append(log, [event |-> "handleCancel",
                           inFlight |-> {running[k].id : k \in 1..Len(running)}])
    /\ UNCHANGED running
    /\ UNCHANGED screenOnly

\* handleCloseError, on the error dialog.
HandleCloseError ==
    /\ pc = "screen"
    /\ screen.mounted /\ screen.showErrorDialog
    /\ screen' = [SetState(screen, "showErrorDialog", FALSE) EXCEPT !.route = "back"]
    /\ UNCHANGED <<detector, isInitialized, running, log>>
    /\ UNCHANGED screenOnly

\* handleRetry, on the error dialog: the state is reset and processVideo
\* called again, with the isCancelled of the render the dialog was drawn in.
HandleRetry ==
    /\ pc = "screen"
    /\ screen.mounted /\ screen.showErrorDialog
    /\ screen.runs < MaxRuns
    /\ running' = Append(running, NewRun(screen))
    /\ screen' = [screen EXCEPT !.error = None, !.showErrorDialog = FALSE,
                                !.progress = 0, !.currentFrame = 0,
                                !.isCancelled = FALSE, !.isInitializing = TRUE,
                                !.runs = @ + 1]
    /\ UNCHANGED <<detector, isInitialized, log>>
    /\ UNCHANGED screenOnly

\* The screen that was left is unmounted: the effect's cleanup disposes of
\* the service.
Unmount ==
    /\ pc = "screen"
    /\ screen.mounted /\ screen.route # "/analysis/processing"
    /\ screen' = [screen EXCEPT !.mounted = FALSE]
    /\ detector' = None
    /\ isInitialized' = FALSE
    /\ UNCHANGED <<running, log>>
    /\ UNCHANGED screenOnly

NextScreen ==
    \/ Mount
    \/ ScreenTfReady
    \/ ScreenCreateDetector
    \/ GetVideoDuration
    \/ ScreenExtractFrames
    \/ ScreenFrameSettles
    \/ HandleCancel
    \/ HandleCloseError
    \/ HandleRetry
    \/ Unmount

SpecScreen == InitScreen /\ [][NextScreen]_vars

-----------------------------------------------------------------------------
(* calculateDeviations called on two JointAngles records                   *)

\* The ten (joint, side) pairs.
Segments == {<<joints[j], sides[k]>> : j \in 1..Len(joints), k \in 1..Len(sides)}

\* Differences user - gold, in thousandths of a degree, around the two
\* thresholds and away from them.
AngleDeltas ==
    {0, 5000, 9999, 10000, 15000, 15001, 40000, -9999, -10000, -15000, -15001}

\* Angles of the gold standard, in degrees.
GoldBaseAngles == {90, 120}

\* The record holding angle `base` at every joint and side.
UniformAngles(base) ==
    [joint \in {joints[j] : j \in 1..Len(joints)} |->
        [side \in {sides[k] : k \in 1..Len(sides)} |-> Num(base)]]

\* `angles` with d thousandths of a degree added at segment seg.
Shifted(angles, seg, d) ==
    [angles EXCEPT ![seg[1]][seg[2]] = RAdd(@, Rat(d, 1000))]

InitScorer ==
    /\ pc = "angles"
    /\ \E base \in GoldBaseAngles :
           /\ goldAngles = UniformAngles(base)
           /\ \E s1 \in Segments, s2 \in Segments, d1 \in AngleDeltas, d2 \in AngleDeltas :
                  userAngles = Shifted(Shifted(goldAngles, s1, d1), s2, d2)
    /\ frameDeviations = None
    /\ NoCollaborators
    /\ userLandmarks = <<>>
    /\ goldStandardLandmarks = <<>>
    /\ comparison = None
    /\ report = None
    /\ callArgs = None
    /\ callResult = None

CalculateDeviations ==
    /\ pc = "angles"
    /\ frameDeviations' = calculateDeviations(userAngles, goldAngles)
    /\ pc' = "scored"
    /\ UNCHANGED <<userLandmarks, goldStandardLandmarks, comparison, report,
                   userAngles, goldAngles, callArgs, callResult>>
    /\ UNCHANGED collaboratorVars

NextScorer == CalculateDeviations

SpecScorer == InitScorer /\ [][NextScorer]_vars

-----------------------------------------------------------------------------
(* calculateOverallScore called on two aggregated DeviationScores          *)

\* Averaged deviations, in tenths of a degree: none, small, at the two
\* severity thresholds, around the 30 degrees that score 0, and far beyond.
DeviationTenths == {0, 15, 100, 150, 299, 300, 301, 450, 1800}

\* The DeviationScores, in the key order of calculateDeviations, that hold
\* `base` tenths of a degree at every segment except `value` at segment seg.
AggregatedDeviations(base, seg, value) ==
    [n \in 1..(Len(joints) * Len(sides)) |->
        LET joint == joints[((n - 1) \div Len(sides)) + 1]
            side == sides[((n - 1) % Len(sides)) + 1]
            deviation == IF <<joint, side>> = seg THEN Rat(value, 10)
                         ELSE Rat(base, 10)
        IN  [key |-> segmentKeyOf(side, joint),
             deviation |-> deviation,
             severity |-> averageSeverity(deviation)]]

InitScore ==
    /\ pc = "deviations"
    /\ \E base \in DeviationTenths, seg \in Segments,
          smaller \in DeviationTenths, larger \in DeviationTenths :
           /\ smaller < larger
           /\ callArgs = <<AggregatedDeviations(base, seg, smaller),
                           AggregatedDeviations(base, seg, larger)>>
    /\ callResult = None
    /\ userLandmarks = <<>>
    /\ goldStandardLandmarks = <<>>
    /\ comparison = None
    /\ report = None
    /\ userAngles = None
    /\ goldAngles = None
    /\ frameDeviations = None
    /\ NoCollaborators

\* calculateOverallScore on the first set, then on the second.
CalculateOverallScore ==
    /\ pc = "deviations"
    /\ callResult' = <<calculateOverallScore(callArgs[1]),
                       calculateOverallScore(callArgs[2])>>
    /\ pc' = "rated"
    /\ UNCHANGED <<userLandmarks, goldStandardLandmarks, comparison, report,
                   userAngles, goldAngles, frameDeviations, callArgs>>
    /\ UNCHANGED collaboratorVars

NextScore == CalculateOverallScore

SpecScore == InitScore /\ [][NextScore]_vars

-----------------------------------------------------------------------------
(* calculateAngle called on three points, calculateJointAngles on one      *)
(* landmark array                                                          *)

\* Largest x and y cell of the points handed to calculateAngle.
GridMax == 2

\* Points of a small block of cells, two layers deep.
GridPoints ==
    {V(x, y, z) : x \in 0..GridMax, y \in 0..GridMax, z \in 0..1}

\* Shapes of the limbs of the figures handed to calculateJointAngles.
ArmShapes == {ArmStraight, ArmMedium, ArmHigh, ArmBent, ArmElbow40}
LegShapes == {LegStraight, LegMedium, LegBent}

\* Landmark arrays: every figure whose limbs take these shapes, and the
\* arrays whose 33 points all lie at one point.
LandmarkArrays ==
    {LandmarksOf(leftArm, rightArm, leftLeg, rightLeg) :
        leftArm \in ArmShapes, rightArm \in ArmShapes,
        leftLeg \in LegShapes, rightLeg \in LegShapes}
    \cup {[k \in 1..NumLandmarks |-> point] : point \in GridPoints}

InitGeometry ==
    /\ \/ /\ pc = "points"
          /\ callArgs \in GridPoints \X GridPoints \X GridPoints
       \/ /\ pc = "landmarks"
          /\ \E landmarks \in LandmarkArrays : callArgs = <<landmarks>>
    /\ callResult = None
    /\ userLandmarks = <<>>
    /\ goldStandardLandmarks = <<>>
    /\ comparison = None
    /\ report = None
    /\ userAngles = None
    /\ goldAngles = None
    /\ frameDeviations = None
    /\ NoCollaborators

CalculateAngle ==
    /\ pc = "points"
    /\ callResult' = calculateAngle(callArgs[1], callArgs[2], callArgs[3])
    /\ pc' = "angle"
    /\ UNCHANGED <<userLandmarks, goldStandardLandmarks, comparison, report,
                   userAngles, goldAngles, frameDeviations, callArgs>>
    /\ UNCHANGED collaboratorVars

CalculateJointAngles ==
    /\ pc = "landmarks"
    /\ callResult' = calculateJointAngles(callArgs[1])
    /\ pc' = "jointAngles"
    /\ UNCHANGED <<userLandmarks, goldStandardLandmarks, comparison, report,
                   userAngles, goldAngles, frameDeviations, callArgs>>
    /\ UNCHANGED collaboratorVars

NextGeometry == CalculateAngle \/ CalculateJointAngles

SpecGeometry == InitGeometry /\ [][NextGeometry]_vars

-----------------------------------------------------------------------------
(* Claims about calculateDeviations                                        *)

\* The keys of the fixed ten-entry schema.
SchemaKeys ==
    {"left_shoulder", "right_shoulder", "left_elbow", "right_elbow",
     "left_wrist", "right_wrist", "left_hip", "right_hip",
     "left_knee", "right_knee"}

\* Entry e holds exactly n thousandths of a degree.
IsMilli(e, n) == e.deviation.num * 1000 = n * e.deviation.den

\* C1: every entry returned by calculateDeviations is 'high' when its
\* deviation is strictly above 15 degrees, 'medium' when it is from 10 to 15
\* degrees inclusive and 'low' when it is below 10 degrees, and carries one
\* of these three severities.
C1_SeverityByThresholds ==
    pc = "scored" =>
        \A k \in 1..Len(frameDeviations) :
            LET e == frameDeviations[k]
                n == e.deviation.num
                d == e.deviation.den
            IN  /\ e.severity \in {"high", "medium", "low"}
                /\ (n > 15 * d) => e.severity = "high"
                /\ (n >= 10 * d /\ n <= 15 * d) => e.severity = "medium"
                /\ (n < 10 * d) => e.severity = "low"

\* A call whose result holds all three severities.
C1_Witness ==
    /\ pc = "scored"
    /\ \A sev \in {"high", "medium", "low"} :
           \E k \in 1..Len(frameDeviations) : frameDeviations[k].severity = sev

\* C2 as stated: 10.0 is 'medium', 15.0 is 'high', 9.999 is 'low' and
\* 15.001 is 'high'.
C2_BoundaryAsStated ==
    pc = "scored" =>
        \A k \in 1..Len(frameDeviations) :
            LET e == frameDeviations[k]
            IN  /\ IsMilli(e, 10000) => e.severity = "medium"
                /\ IsMilli(e, 15000) => e.severity = "high"
                /\ IsMilli(e, 9999) => e.severity = "low"
                /\ IsMilli(e, 15001) => e.severity = "high"

\* C2, amended: a deviation of exactly 10.0 degrees is 'medium', exactly
\* 15.0 degrees is 'medium' too (the comparison with 15 is strict), 9.999
\* degrees is 'low' and 15.001 degrees is 'high'.
C2_Boundary ==
    pc = "scored" =>
        \A k \in 1..Len(frameDeviations) :
            LET e == frameDeviations[k]
            IN  /\ IsMilli(e, 10000) => e.severity = "medium"
                /\ IsMilli(e, 15000) => e.severity = "medium"
                /\ IsMilli(e, 9999) => e.severity = "low"
                /\ IsMilli(e, 15001) => e.severity = "high"

\* A call whose result holds a deviation of exactly 15.0 degrees next to one
\* of 15.001 degrees.
C2_Witness ==
    /\ pc = "scored"
    /\ \E k \in 1..Len(frameDeviations) : IsMilli(frameDeviations[k], 15000)
    /\ \E k \in 1..Len(frameDeviations) : IsMilli(frameDeviations[k], 15001)

\* C3: calculateDeviations returns exactly ten entries, one per key
\* "{side}_{joint}" of the schema, and each entry's deviation is the
\* absolute difference of the user's and the gold standard's angle at that
\* joint and side, so it is never negative.
C3_TenAbsoluteDeviations ==
    pc = "scored" =>
        /\ Len(frameDeviations) = 10
        /\ {frameDeviations[k].key : k \in 1..Len(frameDeviations)} = SchemaKeys
        /\ \A seg \in Segments :
               \E k \in 1..Len(frameDeviations) :
                   LET e == frameDeviations[k]
                       u == userAngles[seg[1]][seg[2]]
                       g == goldAngles[seg[1]][seg[2]]
                   IN  /\ e.key = seg[2] \o "_" \o seg[1]
                       /\ e.deviation.num >= 0
                       /\ e.deviation.den > 0
                       /\ e.deviation.num * (u.den * g.den)
                              = Abs(u.num * g.den - g.num * u.den) * e.deviation.den

\* A call in which the user's angle is below the gold standard's at one
\* segment and above it at another.
C3_Witness ==
    /\ pc = "scored"
    /\ \E a \in Segments, b \in Segments :
           /\ RGt(goldAngles[a[1]][a[2]], userAngles[a[1]][a[2]])
           /\ RGt(userAngles[b[1]][b[2]], goldAngles[b[1]][b[2]])

-----------------------------------------------------------------------------
(* Claims about comparePoses, stated of the state it returns into          *)

\* Number of aligned frame pairs of the run.
AlignedFrames ==
    IF Len(userLandmarks) <= Len(goldStandardLandmarks)
    THEN Len(userLandmarks) ELSE Len(goldStandardLandmarks)

\* The deviations of aligned frame pair i (0-based).
PairDeviations(i) ==
    calculateDeviations(calculateJointAngles(userLandmarks[i + 1].landmarks),
                        calculateJointAngles(goldStandardLandmarks[i + 1].landmarks))

\* The deviations of all aligned frame pairs, pair i at place i + 1.
AllPairDeviations ==
    [i \in 1..AlignedFrames |-> PairDeviations(i - 1)] \o <<>>

\* devs has a segment of severity sev.
HasSeverity(devs, sev) == \E k \in 1..Len(devs) : devs[k].severity = sev

\* Sum of the deviations of entries k.. of devs, as a count of 1/unit
\* degrees; every denominator divides unit.
RECURSIVE UnitSum(_, _, _)
UnitSum(devs, k, unit) ==
    IF k > Len(devs) THEN 0
    ELSE devs[k].deviation.num * (unit \div devs[k].deviation.den)
             + UnitSum(devs, k + 1, unit)

\* The unit in which the averaged deviations of the run are whole numbers.
RunUnit == 1000 * AlignedFrames

\* C4: for a non-empty comparison, overallScore is
\* round(clamp(100 - (meanDeviation / 30) * 100, 0, 100)), meanDeviation being
\* the mean of the ten averaged deviations: an integer in 0..100, 100 when
\* the mean is 0, and 0 when the mean is 30 or more.
C4_ScoreFormula ==
    (pc = "compared" /\ Len(comparison.deviations) > 0) =>
        LET devs == comparison.deviations
            total == UnitSum(devs, 1, RunUnit)     \* sum, in 1/RunUnit degrees
            \* mean = total / (10 * RunUnit); 100 - mean / 30 * 100
            \*      = (300 * RunUnit - total) / (3 * RunUnit)
            expected == IF total >= 300 * RunUnit THEN 0
                        ELSE (603 * RunUnit - 2 * total) \div (6 * RunUnit)
        IN  /\ Len(devs) = 10
            /\ \A k \in 1..Len(devs) : RunUnit % devs[k].deviation.den = 0
            /\ comparison.overallScore = expected
            /\ comparison.overallScore \in 0..100
            /\ (total = 0) => comparison.overallScore = 100
            /\ (total >= 300 * RunUnit) => comparison.overallScore = 0

\* A comparison whose mean deviation exceeds 30 degrees, and is scored 0.
C4_Witness ==
    /\ pc = "compared"
    /\ Len(comparison.deviations) > 0
    /\ UnitSum(comparison.deviations, 1, RunUnit) > 300 * RunUnit
    /\ comparison.overallScore = 0

\* `frames` cut to its first n frames, frame numbers and timestamps erased.
FirstFrames(frames, n) ==
    [k \in 1..n |-> [frameIndex |-> 0, timestamp |-> 0,
                     landmarks |-> frames[k].landmarks]]

\* C5: comparePoses compares frame i with frame i for the first
\* n = min(lengths) frames only: its result is the result of comparing the
\* first n frames of each sequence, whatever the frames' numbers and
\* timestamps, and every key frame is a position below n.
C5_PositionalTruncation ==
    pc = "compared" =>
        /\ comparison = comparePoses(FirstFrames(userLandmarks, AlignedFrames),
                                     FirstFrames(goldStandardLandmarks, AlignedFrames))
        /\ \A k \in 1..Len(comparison.keyFrames) :
               comparison.keyFrames[k] \in 0..(AlignedFrames - 1)

\* A comparison of a longer user sequence, whose extra frame differs from
\* the frame before it, with a non-empty gold sequence.
C5_Witness ==
    /\ pc = "compared"
    /\ Len(goldStandardLandmarks) >= 1
    /\ Len(userLandmarks) > Len(goldStandardLandmarks)
    /\ userLandmarks[Len(userLandmarks)].landmarks
           # userLandmarks[Len(userLandmarks) - 1].landmarks
    /\ userLandmarks[1].timestamp # userLandmarks[Len(userLandmarks)].timestamp

\* C6: with an empty user or gold sequence comparePoses returns
\* overallScore 100, no key frame and an empty deviations mapping.
C6_EmptyOverlap ==
    (pc = "compared" /\ (Len(userLandmarks) = 0 \/ Len(goldStandardLandmarks) = 0)) =>
        /\ comparison.overallScore = 100
        /\ comparison.keyFrames = <<>>
        /\ comparison.deviations = <<>>

\* A finished comparison of no user frame with some gold frames.
C6_Witness ==
    /\ pc = "compared"
    /\ Len(userLandmarks) = 0
    /\ Len(goldStandardLandmarks) > 0
    /\ comparison.overallScore = 100

\* C7: keyFrames lists, in strictly increasing order, exactly the positions
\* i in [0, n) whose aligned frame pair has a segment of severity 'high'.
C7_KeyFrames ==
    pc = "compared" =>
        LET kf == comparison.keyFrames
            pairs == AllPairDeviations
        IN  /\ \A j \in 1..Len(kf) :
                   /\ kf[j] \in 0..(AlignedFrames - 1)
                   /\ HasSeverity(pairs[kf[j] + 1], "high")
            /\ \A j \in 1..Len(kf), k \in 1..Len(kf) : j < k => kf[j] < kf[k]
            /\ \A i \in 0..(AlignedFrames - 1) :
                   HasSeverity(pairs[i + 1], "high") => \E j \in 1..Len(kf) : kf[j] = i

\* A comparison whose first frame pair has a 'medium' segment and no 'high'
\* one, and whose second frame pair is the only key frame.
C7_Witness ==
    /\ pc = "compared"
    /\ AlignedFrames >= 2
    /\ comparison.keyFrames = <<1>>
    /\ HasSeverity(PairDeviations(0), "medium")

\* C8: for a non-empty comparison, each of the ten entries of deviations
\* holds the mean over the n aligned frames of that segment's deviation,
\* and the severity that the thresholds give to that mean.
C8_AveragedDeviations ==
    (pc = "compared" /\ AlignedFrames > 0) =>
        LET pairs == AllPairDeviations
        IN  /\ Len(comparison.deviations) = 10
            /\ {comparison.deviations[k].key : k \in 1..10} = SchemaKeys
            /\ \A k \in 1..Len(comparison.deviations) :
                   LET e == comparison.deviations[k]
                       perFrame == [i \in 1..AlignedFrames |-> Get(pairs[i], e.key)]
                       sum == UnitSum(perFrame, 1, 1000)   \* in 1/1000 degrees
                       n == e.deviation.num
                       d == e.deviation.den
                   IN  /\ n * 1000 * AlignedFrames = sum * d
                       /\ e.severity = IF n > 15 * d THEN "high"
                                       ELSE IF n >= 10 * d THEN "medium" ELSE "low"

\* A comparison with a segment that is 'high' in one frame, unchanged in the
\* others, and 'low' on average.
C8_Witness ==
    /\ pc = "compared"
    /\ AlignedFrames >= 2
    /\ LET pairs == AllPairDeviations
       IN  \E k \in 1..Len(comparison.deviations) :
               LET e == comparison.deviations[k]
               IN  /\ e.severity = "low"
                   /\ \E i \in 1..AlignedFrames :
                          /\ Get(pairs[i], e.key).severity = "high"
                          /\ \A j \in 1..AlignedFrames :
                                 j # i => Get(pairs[j], e.key).deviation = Num(0)

-----------------------------------------------------------------------------
(* Claims about generateFeedback, stated of the state it returns into      *)

\* The issues of categories k.. in reading order, those of the categories
\* named in `skip` left out.
RECURSIVE IssuesFrom(_, _, _)
IssuesFrom(categories, k, skip) ==
    IF k > Len(categories) THEN <<>>
    ELSE (IF categories[k].name \in skip THEN <<>> ELSE categories[k].issues)
             \o IssuesFrom(categories, k + 1, skip)

\* The issues of the report that stand for a segment of the comparison.
MeasuredIssues == IssuesFrom(report.categories, 1, {"Overall Form"})

\* All issues of the report in reading order.
ReportIssues == IssuesFrom(report.categories, 1, {})

\* The description of an issue for the given side and joint.
DescriptionOf(side, joint, degrees) ==
    (IF side = "left" THEN "Left" ELSE "Right") \o " " \o joint
        \o " angle deviates by " \o ToString(degrees) \o "deg from ideal form"

\* C9: generateFeedback emits no issue for a segment whose averaged
\* severity is 'low', and exactly one issue, with the segment's joint, its
\* severity and the rounded averaged deviation, for every segment whose
\* averaged severity is 'medium' or 'high'; it emits no other measured issue.
C9_IssuesForNonLowSegments ==
    pc = "reported" =>
        LET devs == comparison.deviations
            issues == MeasuredIssues
            nonLow == {k \in 1..Len(devs) : devs[k].severity # "low"}
        IN  /\ Len(issues) = Cardinality(nonLow)
            /\ \A seg \in Segments :
                   LET key == seg[2] \o "_" \o seg[1]
                   IN  HasKey(devs, key) =>
                       LET e == Get(devs, key)
                           rounded == (2 * e.deviation.num + e.deviation.den)
                                          \div (2 * e.deviation.den)
                           mine == {i \in 1..Len(issues) :
                                      /\ issues[i].segment = seg[1]
                                      /\ issues[i].description
                                             = DescriptionOf(seg[2], seg[1], rounded)}
                       IN  IF e.severity = "low"
                           THEN mine = {}
                           ELSE /\ Cardinality(mine) = 1
                                /\ \A i \in mine :
                                       /\ issues[i].severity = e.severity
                                       /\ issues[i].deviationDegrees = rounded

\* A report on a comparison with a 'low' segment that deviates by a degree
\* or more, a 'medium' segment and a 'high' segment.
C9_Witness ==
    /\ pc = "reported"
    /\ \E k \in 1..Len(comparison.deviations) :
           /\ comparison.deviations[k].severity = "low"
           /\ RGe(comparison.deviations[k].deviation, Num(1))
    /\ HasSeverity(comparison.deviations, "medium")
    /\ HasSeverity(comparison.deviations, "high")

\* C10: reading the report's categories in order and each category's issues
\* in order, every 'high' issue comes before every 'medium' issue.
C10_HighBeforeMedium ==
    pc = "reported" =>
        LET issues == ReportIssues
        IN  \A i \in 1..Len(issues), j \in 1..Len(issues) :
                (issues[i].severity = "medium" /\ issues[j].severity = "high")
                    => j < i

\* Number of segments of the comparison whose averaged severity is not 'low'.
NonLowCount ==
    Cardinality({k \in 1..Len(comparison.deviations) :
                    comparison.deviations[k].severity # "low"})

\* Positions of the categories of the report that carry the given name.
CategoriesNamed(name) ==
    {k \in 1..Len(report.categories) : report.categories[k].name = name}

\* C11: the report holds an "Overall Form" category exactly when three or
\* more segments are not 'low'; when present it is the last category and
\* holds exactly one issue, with segment 'shoulder', severity 'medium' and
\* deviationDegrees 0.
C11_OverallFormTrigger ==
    pc = "reported" =>
        LET overall == CategoriesNamed("Overall Form")
        IN  /\ (overall # {}) <=> (NonLowCount >= 3)
            /\ \A k \in overall :
                   /\ k = Len(report.categories)
                   /\ Len(report.categories[k].issues) = 1
                   /\ report.categories[k].issues[1].segment = "shoulder"
                   /\ report.categories[k].issues[1].severity = "medium"
                   /\ report.categories[k].issues[1].deviationDegrees = 0

\* A report on a comparison with exactly three segments that are not 'low',
\* closed by the "Overall Form" category.
C11_Witness ==
    /\ pc = "reported"
    /\ NonLowCount = 3
    /\ Len(MeasuredIssues) = 3
    /\ report.categories[Len(report.categories)].name = "Overall Form"

\* Place of a category name in the order Upper Body, Lower Body, Overall Form
\* (0 for any other name).
CategoryRank(name) ==
    CASE name = "Upper Body"   -> 1
      [] name = "Lower Body"   -> 2
      [] name = "Overall Form" -> 3
      [] OTHER                 -> 0

\* Number of segments of the comparison that are not 'low' and whose joint
\* is one of `segments`.
NonLowAmong(segments) ==
    Cardinality({k \in 1..Len(comparison.deviations) :
                    /\ comparison.deviations[k].severity # "low"
                    /\ \E side \in {"left", "right"}, joint \in segments :
                           comparison.deviations[k].key = side \o "_" \o joint})

\* Number of issues held by the categories of the report named `name`.
IssuesUnder(name) ==
    Len(IssuesFrom(report.categories, 1,
                   {"Upper Body", "Lower Body", "Overall Form"} \ {name}))

\* C12: every category is one of Upper Body, Lower Body and Overall Form, in
\* that order and each at most once, and holds at least one issue; "Upper
\* Body" holds only shoulder, elbow and wrist issues and all of them, "Lower
\* Body" holds only hip and knee issues and all of them.
C12_CategoryPartition ==
    pc = "reported" =>
        LET cats == report.categories
        IN  /\ \A k \in 1..Len(cats) :
                   /\ CategoryRank(cats[k].name) > 0
                   /\ Len(cats[k].issues) > 0
                   /\ \A j \in 1..Len(cats) :
                          j < k => CategoryRank(cats[j].name) < CategoryRank(cats[k].name)
                   /\ \A i \in 1..Len(cats[k].issues) :
                          /\ cats[k].name = "Upper Body"
                                => cats[k].issues[i].segment \in {"shoulder", "elbow", "wrist"}
                          /\ cats[k].name = "Lower Body"
                                => cats[k].issues[i].segment \in {"hip", "knee"}
            /\ IssuesUnder("Upper Body") = NonLowAmong({"shoulder", "elbow", "wrist"})
            /\ IssuesUnder("Lower Body") = NonLowAmong({"hip", "knee"})
            /\ Len(MeasuredIssues) = IssuesUnder("Upper Body") + IssuesUnder("Lower Body")

\* A report with the three categories, a wrist issue among the upper-body
\* ones.
C12_Witness ==
    /\ pc = "reported"
    /\ Len(report.categories) = 3
    /\ \E i \in 1..Len(report.categories[1].issues) :
           report.categories[1].issues[i].segment = "wrist"
    /\ report.categories[2].name = "Lower Body"

-----------------------------------------------------------------------------
(* A run on one frame pair that differs at the right elbow only            *)

\* The one aligned frame pair differs at the right elbow by 40 degrees to the
\* nearest degree and at no other segment.
OnlyRightElbow40 ==
    /\ AlignedFrames = 1
    /\ LET devs == PairDeviations(0)
       IN  \A k \in 1..Len(devs) :
               IF devs[k].key = "right_elbow"
               THEN (2 * devs[k].deviation.num + devs[k].deviation.den)
                        \div (2 * devs[k].deviation.den) = 40
               ELSE devs[k].deviation = Num(0)

\* C13: when the single aligned frame pair differs from gold at the right
\* elbow only, by 40 degrees, frame 0 is a key frame and the score is 87;
\* the report then holds exactly one issue, for the right elbow, 'high' with
\* deviationDegrees 40, and no "Overall Form" category.
C13_SingleElbowScenario ==
    (pc # "start" /\ OnlyRightElbow40) =>
        /\ comparison.keyFrames = <<0>>
        /\ comparison.overallScore = 87
        /\ pc = "reported" =>
               /\ report.overallScore = 87
               /\ Len(ReportIssues) = 1
               /\ ReportIssues[1].segment = "elbow"
               /\ ReportIssues[1].severity = "high"
               /\ ReportIssues[1].deviationDegrees = 40
               /\ ReportIssues[1].description = DescriptionOf("right", "elbow", 40)
               /\ CategoriesNamed("Overall Form") = {}

\* A report on such a pair, the user's sequence being longer than the gold
\* standard's one frame.
C13_Witness ==
    /\ pc = "reported"
    /\ OnlyRightElbow40
    /\ Len(userLandmarks) > 1
    /\ Len(report.categories) = 1

-----------------------------------------------------------------------------
(* A run on a throw identical to the gold standard                         *)

\* The two sequences have the same, positive number of frames and equal
\* landmarks frame by frame.
IdenticalSequences ==
    /\ Len(userLandmarks) > 0
    /\ Len(userLandmarks) = Len(goldStandardLandmarks)
    /\ \A k \in 1..Len(userLandmarks) :
           userLandmarks[k].landmarks = goldStandardLandmarks[k].landmarks

\* C14: when the user's sequence and the gold standard's are non-empty and
\* identical frame by frame, each of the ten averaged deviations is 0, the
\* score is 100 and there is no key frame; the report made from the
\* comparison has no category and no issue.
C14_IdenticalSequences ==
    (pc # "start" /\ IdenticalSequences) =>
        /\ Len(comparison.deviations) = 10
        /\ \A k \in 1..Len(comparison.deviations) :
               comparison.deviations[k].deviation = Num(0)
        /\ comparison.overallScore = 100
        /\ comparison.keyFrames = <<>>
        /\ pc = "reported" =>
               /\ report.categories = <<>>
               /\ ReportIssues = <<>>
               /\ report.overallScore = 100

\* A report on two identical sequences of MaxFrames frames whose first
\* figure has a bent left elbow.
C14_Witness ==
    /\ pc = "reported"
    /\ IdenticalSequences
    /\ Len(userLandmarks) = MaxFrames
    /\ calculateJointAngles(userLandmarks[1].landmarks).elbow.left # Num(180)

-----------------------------------------------------------------------------
(* Claims about calculateOverallScore                                      *)

\* C15: of two aggregated deviation sets that differ only in one segment,
\* whose deviation is larger in the second, the second never scores higher
\* than the first.
C15_ScoreMonotone ==
    pc = "rated" => callResult[2] <= callResult[1]

\* Two such sets of which the second scores strictly lower, neither score
\* being at an end of the range.
C15_Witness ==
    /\ pc = "rated"
    /\ callResult[2] < callResult[1]
    /\ callResult[2] > 0
    /\ callResult[1] < 100

-----------------------------------------------------------------------------
(* The segments a report can name                                          *)

\* C16: every issue of a report made by generateFeedback from the result of
\* comparePoses names one of shoulder, elbow, wrist, hip and knee; none names
\* 'ankle'.
C16_NoAnkleIssue ==
    pc = "reported" =>
        \A i \in 1..Len(ReportIssues) :
            /\ ReportIssues[i].segment # "ankle"
            /\ ReportIssues[i].segment \in {"shoulder", "elbow", "wrist", "hip", "knee"}

\* A report with a knee issue, the knee angle being the one measured up to
\* the ankle landmark.
C16_Witness ==
    /\ pc = "reported"
    /\ \E i \in 1..Len(MeasuredIssues) :
           /\ MeasuredIssues[i].segment = "knee"
           /\ MeasuredIssues[i].severity = "high"

-----------------------------------------------------------------------------
(* Claims about calculateAngle and calculateJointAngles                    *)

\* One of the two joint vectors of the call has length zero.
Degenerate == callArgs[1] = callArgs[2] \/ callArgs[3] = callArgs[2]

\* C17: calculateAngle returns the number 0 whenever the first or the third
\* point equals the vertex, and calculateJointAngles returns 0 for each of
\* the ten angles of a landmark array whose points all coincide.
C17_DegenerateIsZero ==
    /\ (pc = "angle" /\ Degenerate) => callResult = Num(0)
    /\ (pc = "jointAngles"
           /\ \A k \in 1..Len(callArgs[1]) : callArgs[1][k] = callArgs[1][1])
         => \A seg \in Segments : callResult[seg[1]][seg[2]] = Num(0)

\* A call whose first point is the vertex and whose third is not.
C17_Witness ==
    /\ pc = "angle"
    /\ callArgs[1] = callArgs[2]
    /\ callArgs[3] # callArgs[2]
    /\ callResult = Num(0)

\* C18: calculateAngle returns the same angle when the first and the third
\* point change places.
C18_AngleSymmetry ==
    pc = "angle" =>
        callResult = calculateAngle(callArgs[3], callArgs[2], callArgs[1])

\* A call on three distinct points that make neither a zero nor a straight
\* angle.
C18_Witness ==
    /\ pc = "angle"
    /\ ~Degenerate
    /\ callArgs[1] # callArgs[3]
    /\ callResult # Num(0)
    /\ callResult # Num(180)

\* C19: for a triple whose joint vectors both have positive length,
\* calculateAngle returns a number from 0 to 180 degrees inclusive.
C19_AngleRange ==
    (pc = "angle" /\ ~Degenerate) =>
        /\ callResult.den > 0
        /\ callResult.num >= 0
        /\ callResult.num <= 180 * callResult.den

\* A call on two parallel joint vectors of different lengths, where the
\* rounding of the square roots can carry the quotient past 1.
C19_Witness ==
    /\ pc = "angle"
    /\ ~Degenerate
    /\ callArgs[1] # callArgs[3]
    /\ callResult = Num(0)

\* Slots of the left and of the right side of the 33-point schema.
LeftSlots == {1, 2, 3, 7, 9, 11, 13, 15, 17, 19, 21, 23, 25, 27, 29, 31}
RightSlots == {4, 5, 6, 8, 10, 12, 14, 16, 18, 20, 22, 24, 26, 28, 30, 32}

\* The landmark array with the points of the given slots moved to the origin.
Without(landmarks, slots) ==
    [k \in 1..Len(landmarks) |->
        IF (k - 1) \in slots THEN V(0, 0, 0) ELSE landmarks[k]]

\* C20: each angle is the one at the middle landmark of its triple, taken
\* from the angle's own side: shoulder = (hip 23/24, shoulder 11/12, elbow
\* 13/14), elbow = (shoulder, elbow, wrist 15/16), wrist = (elbow, wrist,
\* index 19/20), hip = (shoulder, hip, knee 25/26), knee = (hip, knee, ankle
\* 27/28); the left angles do not depend on any right-side slot, nor the
\* right angles on any left-side slot.
C20_FixedTriples ==
    pc = "jointAngles" =>
        LET L == callArgs[1]
            P(i) == L[i + 1]
            noRight == calculateJointAngles(Without(L, RightSlots))
            noLeft == calculateJointAngles(Without(L, LeftSlots))
        IN  /\ callResult.shoulder.left  = calculateAngle(P(23), P(11), P(13))
            /\ callResult.shoulder.right = calculateAngle(P(24), P(12), P(14))
            /\ callResult.elbow.left     = calculateAngle(P(11), P(13), P(15))
            /\ callResult.elbow.right    = calculateAngle(P(12), P(14), P(16))
            /\ callResult.wrist.left     = calculateAngle(P(13), P(15), P(19))
            /\ callResult.wrist.right    = calculateAngle(P(14), P(16), P(20))
            /\ callResult.hip.left       = calculateAngle(P(11), P(23), P(25))
            /\ callResult.hip.right      = calculateAngle(P(12), P(24), P(26))
            /\ callResult.knee.left      = calculateAngle(P(23), P(25), P(27))
            /\ callResult.knee.right     = calculateAngle(P(24), P(26), P(28))
            /\ DOMAIN callResult = {"shoulder", "elbow", "wrist", "hip", "knee"}
            /\ \A joint \in DOMAIN callResult :
                   /\ DOMAIN callResult[joint] = {"left", "right"}
                   /\ callResult[joint].left = noRight[joint].left
                   /\ callResult[joint].right = noLeft[joint].right

\* A figure whose left and right angles differ at the elbow and at the knee.
C20_Witness ==
    /\ pc = "jointAngles"
    /\ callResult.elbow.left # callResult.elbow.right
    /\ callResult.wrist.left # callResult.wrist.right
    /\ callResult.knee.left # callResult.knee.right

-----------------------------------------------------------------------------
(* Purity of comparePoses and generateFeedback                             *)

\* A report with its id and its timestamp blanked.
WithoutIdAndTime(r) == [r EXCEPT !.id = "", !.timestamp = 0]

-----------------------------------------------------------------------------
(* The order of the issues inside a category                               *)

\* Place, in the key order of the comparison, of the segment that a measured
\* issue stands for; the side is read from the issue's description.
SegmentPlace(issue) ==
    CHOOSE k \in 1..Len(comparison.deviations) :
        \E side \in {"left", "right"} :
            /\ comparison.deviations[k].key = side \o "_" \o issue.segment
            /\ issue.description
                   = DescriptionOf(side, issue.segment, issue.deviationDegrees)

\* Rank of a severity: 'high' reads before 'medium'.
SeverityRank(severity) == IF severity = "high" THEN 0 ELSE 1

\* C24: in the issue list of every category, an issue that reads before
\* another is of higher or equal severity; of equal severity, its
\* deviationDegrees is greater or equal; equal in both, its segment comes
\* earlier in the fixed iteration order of the segments.
C24_OrderWithinCategory ==
    pc = "reported" =>
        \A c \in 1..Len(report.categories) :
            LET issues == report.categories[c].issues
            IN  \A i \in 1..Len(issues), j \in 1..Len(issues) :
                    i < j =>
                        \/ SeverityRank(issues[i].severity)
                               < SeverityRank(issues[j].severity)
                        \/ /\ issues[i].severity = issues[j].severity
                           /\ issues[i].deviationDegrees > issues[j].deviationDegrees
                        \/ /\ issues[i].severity = issues[j].severity
                           /\ issues[i].deviationDegrees = issues[j].deviationDegrees
                           /\ SegmentPlace(issues[i]) < SegmentPlace(issues[j])

\* A category that holds two issues tying on severity and degrees and an
\* issue of the same severity with fewer degrees.
C24_Witness ==
    /\ pc = "reported"
    /\ \E c \in 1..Len(report.categories) :
           LET issues == report.categories[c].issues
           IN  \E i \in 1..Len(issues), j \in 1..Len(issues), k \in 1..Len(issues) :
                   /\ i < j /\ j < k
                   /\ issues[i].severity = issues[k].severity
                   /\ issues[i].deviationDegrees = issues[j].deviationDegrees
                   /\ issues[j].deviationDegrees > issues[k].deviationDegrees

-----------------------------------------------------------------------------
(* Key frames and the score against the issues                             *)

\* C29: when a segment's averaged severity is 'high', some aligned frame pair
\* has that segment 'high' and the key-frame list is not empty; a report
\* with a 'high' issue comes with at least one key frame.
C29_HighHasKeyFrame ==
    /\ pc = "compared" =>
           LET pairs == AllPairDeviations
           IN  \A k \in 1..Len(comparison.deviations) :
                   comparison.deviations[k].severity = "high" =>
                       /\ comparison.keyFrames # <<>>
                       /\ \E i \in 1..Len(pairs) :
                              /\ Get(pairs[i], comparison.deviations[k].key).severity
                                     = "high"
                              /\ \E f \in 1..Len(comparison.keyFrames) :
                                     comparison.keyFrames[f] = i - 1
    /\ pc = "reported" =>
           ((\E i \in 1..Len(ReportIssues) : ReportIssues[i].severity = "high")
               => comparison.keyFrames # <<>>)

\* A comparison of two frame pairs with a segment 'high' on average and only
\* one key frame.
C29_Witness ==
    /\ pc = "compared"
    /\ AlignedFrames = 2
    /\ HasSeverity(comparison.deviations, "high")
    /\ Len(comparison.keyFrames) = 1

\* C30: a report that holds an issue scores at most 97, and a report that
\* scores 100 has no category.
C30_ScoreAgainstIssues ==
    pc = "reported" =>
        /\ Len(ReportIssues) >= 1 => report.overallScore <= 97
        /\ report.overallScore = 100 => report.categories = <<>>

\* A report that holds an issue and scores 97.
C30_Witness ==
    /\ pc = "reported"
    /\ Len(ReportIssues) = 1
    /\ report.overallScore = 97

-----------------------------------------------------------------------------
(* Report ids                                                              *)

\* C23 as stated: no two reports made in the process have the same id.
C23_UniqueIds ==
    pc = "reporting" =>
        \A i \in 1..Len(callResult), j \in 1..Len(callResult) :
            i # j => callResult[i].report.id # callResult[j].report.id

\* C23: two reports made in the process have the same id exactly when they
\* were made at the same clock reading with the same random suffix, the first
\* nine base-36 digits of the number drawn; reports made in different
\* milliseconds, or with different suffixes, have different ids.
C23_IdsByInstantAndSuffix ==
    pc = "reporting" =>
        \A i \in 1..Len(callResult), j \in 1..Len(callResult) :
            (callResult[i].report.id = callResult[j].report.id)
                <=> /\ callResult[i].now = callResult[j].now
                    /\ RandomSuffix(callResult[i].digits)
                           = RandomSuffix(callResult[j].digits)

\* Two reports made in the same millisecond with different ids, and a third
\* that differs from the second only behind the ninth digit drawn.
C23_Witness ==
    /\ pc = "reporting"
    /\ Len(callResult) = 3
    /\ callResult[1].now = callResult[2].now
    /\ callResult[1].report.id # callResult[2].report.id
    /\ callResult[3].now = callResult[2].now
    /\ callResult[3].digits # callResult[2].digits
    /\ callResult[3].report.id = callResult[2].report.id

-----------------------------------------------------------------------------
(* Claims about PoseDetectionService                                       *)

\* The landmark arrays the detect call that ended last has returned.
ReturnedLandmarks ==
    IF "value" \notin DOMAIN callResult.outcome THEN {}
    ELSE IF callResult.call.op = "detectPoseInFrame" THEN {callResult.outcome.value}
    ELSE {callResult.outcome.value[k].landmarks : k \in 1..Len(callResult.outcome.value)}

\* C21 as stated: every landmark array the service returns for a frame has
\* the 33 entries of the PoseLandmarkIndex schema.
C21_ThirtyThreeLandmarks ==
    pc = "service" => \A landmarks \in ReturnedLandmarks : Len(landmarks) = NumLandmarks

\* The frames of the finished call whose detection yielded a pose, and the
\* one among them that comes j-th.
Yielded(call) == {k \in 1..Len(call.attempts) : "value" \in DOMAIN call.attempts[k]}
YieldedAt(call, j) ==
    CHOOSE k \in Yielded(call) : Cardinality({m \in Yielded(call) : m <= k}) = j

LifecycleEvents(n) ==
    {k \in 1..n : /\ log[k].phase = "settled"
                  /\ \/ log[k].op = "dispose"
                     \/ log[k].op = "initialize" /\ "returned" \in DOMAIN log[k].result}
InEffect(n) ==
    /\ LifecycleEvents(n) # {}
    /\ log[CHOOSE k \in LifecycleEvents(n) : \A m \in LifecycleEvents(n) : m <= k].op
           = "initialize"

\* C28: isInitialized holds exactly while a successful initialize() is in
\* effect; isReady() returns that; a detect method called while none is in
\* effect throws POSE_DETECTION_FAILED at once; and behind an initialize()
\* that failed with none in effect isInitialized is FALSE.
C28_Lifecycle ==
    pc = "service" =>
        /\ isInitialized = InEffect(Len(log))
        /\ \A k \in 1..Len(log) :
               /\ (log[k].phase = "called" /\ log[k].op \in DetectOps /\ ~InEffect(k - 1))
                      => /\ k < Len(log)
                         /\ log[k + 1] = [op |-> log[k].op, call |-> log[k].call,
                                          phase |-> "settled",
                                          result |-> PoseDetectionFailed]
               /\ (log[k].phase = "settled" /\ log[k].op = "isReady")
                      => log[k].result = Returned(InEffect(k - 1))
        /\ (/\ log # <<>>
            /\ log[Len(log)].op = "initialize"
            /\ log[Len(log)].phase = "settled"
            /\ "error" \in DOMAIN log[Len(log)].result
            /\ ~InEffect(Len(log) - 1))
               => ~isInitialized

\* initialize() has returned, dispose() was called, and a detect method
\* called after that has thrown.
C28_Witness ==
    /\ pc = "service"
    /\ \E i \in 1..Len(log), j \in 1..Len(log), k \in 1..Len(log) :
           /\ i < j /\ j < k
           /\ log[i].op = "initialize" /\ log[i].phase = "settled"
           /\ "returned" \in DOMAIN log[i].result
           /\ log[j].op = "dispose"
           /\ log[k].op = "detectPosesInVideo" /\ log[k].phase = "settled"
           /\ log[k].result = PoseDetectionFailed

-----------------------------------------------------------------------------
(* Claims about StorageService                                             *)

\* C26 as stated: once no saveAnalysis is under way, every report saved is
\* found by getAnalysisById and the history holds an entry for each.
C26_NoSaveLost ==
    pc = "storage" /\ running = <<>> =>
        /\ \A k \in 1..Len(log) : "value" \in DOMAIN getAnalysisById(storage, log[k])
        /\ Len(getAnalysisHistory(storage)) >= Len(log)

-----------------------------------------------------------------------------
(* Claims about ProcessingScreen                                           *)

\* What a run must not do once it has been cancelled.
AbandonedEffects ==
    {"router.push", "setProgress", "setCurrentFrame", "setEstimatedTimeRemaining"}

\* C25 as stated: behind a handleCancel that found a run of processVideo in
\* flight, that run neither pushes the results route nor updates progress,
\* frame counter or time remaining of the mounted screen.
C25_CancelAbandonsResult ==
    pc = "screen" =>
        \A i \in 1..Len(log), j \in 1..Len(log) :
            (/\ i < j
             /\ log[i].event = "handleCancel"
             /\ log[j].event \in AbandonedEffects
             /\ log[j].run \in log[i].inFlight)
                => /\ log[j].event # "router.push"
                   /\ ~log[j].mounted

====
